---- MODULE Spec2Model ----
(***************************************************************************)
(* The FireWorks LaunchPad (fireworks/core/mongo_launchpad.py) as a state  *)
(* machine over the two MongoDB collections `fireworks` and `workflows`,   *)
(* the id counter, and the client processes that call the LaunchPad.       *)
(*                                                                         *)
(* Every store call (find_one_and_update, find_one_and_replace, ...) is    *)
(* one atomic step; a method that makes several store calls is a sequence  *)
(* of steps of the calling process, so that other processes interleave     *)
(* between them.  A find without sort, or with a sort that leaves ties,    *)
(* returns any of the matching documents.                                  *)
(*                                                                         *)
(* The file calls some names with an arity or a spelling other than the   *)
(* one it defines (get_fw_by_id(fw_id, launch_idx) at line 603 against the *)
(* one-argument definition of line 293, among others); such a call is read *)
(* as the definition it evidently refers to, and the data flow and the     *)
(* store calls are modelled as written.  The store carries no unique       *)
(* index: the constructor builds none, and tuneup (lines 493-494) would    *)
(* build them on fw_id alone and on launch_idx alone.  Code the file calls *)
(* but does not contain (Workflow.refresh, rerun_fw, the worker) is        *)
(* modelled from the specification document.                               *)
(*                                                                         *)
(* Time: `now` counts clock ticks (datetime.utcnow()); the waiting time of *)
(* WFLock is counted in milliseconds (ctr/10.0 s = 100*ctr ms).            *)
(***************************************************************************)
EXTENDS Integers, Sequences, FiniteSets, TLC

\* ---------------------------------------------------------------- bounds
Procs == {1, 2}
MaxTime == 3
\* the id counter is not incremented beyond this value
MaxId == 7
\* the fireworks collection holds at most this many documents
MaxDocs == 5
\* the clients start at most this many operations (where cfg.count is set)
MaxOps == 2
\* WFLock expire_secs, in milliseconds (a small stand-in for the configured value)
expire_secs == 250
\* random.random()/100.0 of one back-off, in milliseconds: the two extremes
Jitter == {0, 9}

States == {"WAITING", "READY", "RESERVED", "RUNNING", "COMPLETED", "FIZZLED",
           "DEFUSED", "PAUSED", "ARCHIVED"}
Terminal == {"COMPLETED", "FIZZLED"}

VARIABLES
  fireworks,    \* the fireworks collection: a sequence of documents
  workflows,    \* the workflows collection: a sequence of documents
  next_fw_id,   \* the fw_id_assigner document: its next_fw_id, or NoCounter
  issued,       \* history: the ids get_new_fw_id has handed out, ever and
                \* since the counter was last restarted (the program does
                \* not read it)
  gridfs_fallback, \* the GridFS collection of spilled actions: whether one is
                \* configured, and its files
  now,          \* the clock
  cfg,          \* fw_config: SORT_FWS, WFLOCK_EXPIRATION_KILL, the dupefinder policy
  pc,           \* per process: where it stands in the method it executes
  loc,          \* per process: the method's arguments and local variables
  nops          \* the number of operations the clients have started

vars == <<fireworks, workflows, next_fw_id, issued, gridfs_fallback, now, cfg, pc, loc, nops>>

\* ------------------------------------------------------------ documents
NoDoc == [fw_id |-> 0]
NoWf == [nodes |-> {}]

\* an action dictionary: the amount of data it carries (0: the empty
\* dictionary), and its key "gridfs_id" when it has one
NoKey == <<>>
ActionDict(n) == [gridfs_id |-> NoKey, stored_data |-> n]

FwDoc(id, idx, st, prio, created, updated, dupe) ==
  [fw_id |-> id, launch_idx |-> idx, state |-> st, priority |-> prio,
   created_on |-> created, updated_on |-> updated,
   dupefinder |-> dupe, duplicates |-> {},
   action |-> ActionDict(0), spec_size |-> 1,
   state_history |-> <<[state |-> st, updated_on |-> updated]>>]

WfDoc(nodes, links, fwst, st) ==
  [nodes |-> nodes, links |-> links, fw_states |-> fwst, state |-> st, locked |-> FALSE]

\* the documents of a firework id, as indexes into the collection
DocsOf(id) == {i \in DOMAIN fireworks : fireworks[i].fw_id = id}

\* workflows.find({}): the filter on nodes left out
WfOfAny(id) == DOMAIN workflows

\* workflows.find({'nodes': fw_id})
WfOf(id) == {w \in DOMAIN workflows : id \in workflows[w].nodes}

Max(S) == CHOOSE x \in S : \A y \in S : y <= x

\* fireworks.find_one({'fw_id': fw_id}, sort=("launch_idx", DESCENDING)):
\* the documents this query may return
LatestOf(id) ==
  {i \in DocsOf(id) : \A j \in DocsOf(id) : fireworks[j].launch_idx <= fireworks[i].launch_idx}

\* ------------------------------------------------------------ processes
\* a client starts an operation
Began ==
  IF cfg.count THEN nops < MaxOps /\ nops' = nops + 1 ELSE nops' = nops

Idle == [op |-> "none", fw |-> 0, ctx |-> "none", ret |-> "idle",
         ctr |-> 0, waited |-> 0, f |-> FALSE, err |-> FALSE,
         m_fw |-> NoDoc, wf |-> NoWf, ups |-> <<>>, out |-> "none",
         arg |-> 0, query |-> {}, checkout |-> FALSE, t0 |-> 0, todo |-> <<>>,
         found |-> NoDoc, has |-> FALSE, exc |-> "none", ids |-> {},
         old_new |-> {}, fws |-> {}, reassign_all |-> FALSE,
         rejected |-> FALSE, action_id |-> 0, db_dict |-> NoDoc,
         after |-> "idle", bad |-> <<>>, rerun |-> FALSE, secs |-> 0,
         value |-> [kind |-> "none", count |-> 0, fw_ids |-> <<>>, error |-> "none"],
         limit |-> 0, count_only |-> FALSE, reserved |-> {}, mongo |-> FALSE]

\* a process is inside the WFLock critical section from the store call of
\* __enter__ that took the lock to the store call of __exit__ (loc[p].has
\* records it; the program does not read it)
InCS(p) == loc[p].has

\* how a method ends: back to the caller's next step, or to idle
Return(p, out) ==
  IF loc[p].ret = "idle"
  THEN /\ pc' = [pc EXCEPT ![p] = "idle"]
       /\ loc' = [loc EXCEPT ![p] = [Idle EXCEPT !.op = loc[p].op, !.out = out]]
  ELSE /\ pc' = [pc EXCEPT ![p] = loc[p].ret]
       /\ loc' = [loc EXCEPT ![p].ctx = "none", ![p].ret = "idle", ![p].f = FALSE,
                             ![p].ctr = 0, ![p].waited = 0, ![p].has = FALSE,
                             ![p].err = FALSE, ![p].wf = NoWf, ![p].ups = <<>>,
                             ![p].out = out]

\* the end of the process's operation: its last return, or an exception that
\* no method catches and that reaches the client (loc[p].exc)
Errors == {"LockedWorkflowError", "ValueError", "RuntimeError", "DocumentTooLarge"}

Finish(p, out) ==
  /\ pc' = [pc EXCEPT ![p] = "idle"]
  /\ loc' = [loc EXCEPT ![p] = [Idle EXCEPT !.op = loc[p].op, !.out = out,
                                            !.exc = IF out \in Errors THEN out
                                                    ELSE "none"]]

\* ------------------------------------------------------------------ WFLock
\* the filter 'locked': {"$exists": False}
\* a test of the lock that always succeeds
UnlockedAlways(w) == TRUE

\* an expiry at twice the configured time
ExpiredAtTwice(waiting_time) == waiting_time > 2 * expire_secs

\* a waiting time compared in the wrong unit
ExpiredInMinutes(waiting_time) == waiting_time > 60 * expire_secs

Unlocked(w) == ~workflows[w].locked

\* where a WFLock user continues: its with-body, after __exit__, and on
\* LockedWorkflowError / ValueError raised by __enter__
Body(p) == IF loc[p].ctx = "refresh" THEN "rf_read" ELSE "cs"

\* lines 76-81: the first compare-and-set
WFLockEnter(p) ==
  /\ pc[p] = "enter"
  /\ LET free == {w \in WfOf(loc[p].fw) : Unlocked(w)} IN
       IF free # {}
       THEN \E w \in free :
              /\ workflows' = [workflows EXCEPT ![w].locked = TRUE]
              /\ pc' = [pc EXCEPT ![p] = Body(p)]
              /\ loc' = [loc EXCEPT ![p].ctr = 0, ![p].waited = 0, ![p].has = TRUE]
       ELSE /\ workflows' = workflows
            /\ pc' = [pc EXCEPT ![p] = "wait"]
            /\ loc' = [loc EXCEPT ![p].ctr = 0, ![p].waited = 0]
  /\ UNCHANGED <<fireworks, next_fw_id, issued, now, cfg, gridfs_fallback, nops>>

\* line 88
Expired(waiting_time) == waiting_time > expire_secs

\* what a failed acquisition leads to: LockedWorkflowError is caught by
\* _refresh_wf (line 900), any other error goes to its bare except (line 902)
Raised(p, error) ==
  IF loc[p].ctx = "refresh"
  THEN IF error = "LockedWorkflowError"
       THEN Return(p, error)
       ELSE /\ pc' = [pc EXCEPT ![p] = "rf_fizzle_fw"]
            /\ loc' = [loc EXCEPT ![p].ctr = 0, ![p].waited = 0, ![p].err = TRUE]
  ELSE Finish(p, error)

\* lines 83-101: one iteration of the retry loop
WFLockWait(p) ==
  /\ pc[p] = "wait"
  /\ \E j \in Jitter :
       LET ctr == loc[p].ctr + 1
           time_incr == 100 * ctr + j
           waiting_time == loc[p].waited + time_incr
           free == {w \in WfOf(loc[p].fw) : Unlocked(w)}
       IN IF Expired(waiting_time)
          THEN IF WfOf(loc[p].fw) = {}
               THEN workflows' = workflows /\ Raised(p, "ValueError")
               ELSE IF cfg.kill
                    THEN \E w \in WfOf(loc[p].fw) :
                           /\ workflows' = [workflows EXCEPT ![w].locked = TRUE]
                           /\ pc' = [pc EXCEPT ![p] = Body(p)]
                           /\ loc' = [loc EXCEPT ![p].ctr = 0, ![p].waited = 0,
                                                 ![p].has = TRUE]
                    ELSE workflows' = workflows /\ Raised(p, "LockedWorkflowError")
          ELSE IF free # {}
               THEN \E w \in free :
                      /\ workflows' = [workflows EXCEPT ![w].locked = TRUE]
                      /\ pc' = [pc EXCEPT ![p] = Body(p)]
                      /\ loc' = [loc EXCEPT ![p].ctr = 0, ![p].waited = 0,
                                            ![p].has = TRUE]
               ELSE /\ workflows' = workflows
                    /\ pc' = pc
                    /\ loc' = [loc EXCEPT ![p].ctr = ctr, ![p].waited = waiting_time]
  /\ UNCHANGED <<fireworks, next_fw_id, issued, now, cfg, gridfs_fallback, nops>>

\* an __exit__ that leaves the document as it is
KeepLocked(wf) == wf

\* line 104: {"$unset": {"locked": True}}
UnsetLocked(wf) == [wf EXCEPT !.locked = FALSE]

\* lines 103-104: __exit__ unsets `locked` on a workflow holding the node
WFLockExit(p) ==
  /\ pc[p] = "exit"
  /\ IF WfOf(loc[p].fw) = {}
     THEN workflows' = workflows
     ELSE \E w \in WfOf(loc[p].fw) :
            workflows' = [workflows EXCEPT ![w] = UnsetLocked(@)]
  /\ IF loc[p].ctx = "refresh"
     THEN IF loc[p].err
          THEN /\ pc' = [pc EXCEPT ![p] = "rf_fizzle_fw"]
               /\ loc' = [loc EXCEPT ![p].has = FALSE]
          ELSE Return(p, "refreshed")
     ELSE Finish(p, "released")
  /\ UNCHANGED <<fireworks, next_fw_id, issued, now, cfg, gridfs_fallback, nops>>

\* a client that takes the lock of the workflow of node fw: `with WFLock(lp, fw): ...`
StartLock(p, fw) ==
  /\ pc[p] = "idle"
  /\ pc' = [pc EXCEPT ![p] = "enter"]
  /\ loc' = [loc EXCEPT ![p] = [Idle EXCEPT !.op = "lock", !.fw = fw, !.ctx = "lock"]]
  /\ UNCHANGED <<fireworks, workflows, next_fw_id, issued, now, cfg, gridfs_fallback>>
  /\ Began

\* the body of that with-statement
LockBody(p) ==
  /\ pc[p] = "cs"
  /\ pc' = [pc EXCEPT ![p] = "exit"]
  /\ UNCHANGED <<fireworks, workflows, next_fw_id, issued, now, cfg, gridfs_fallback, loc, nops>>

\* ------------------------------------------------------------------- clock
\* the clock advances between the clients' operations
Tick ==
  /\ now < MaxTime
  /\ \A p \in Procs : pc[p] = "idle"
  /\ now' = now + 1
  /\ UNCHANGED <<fireworks, workflows, next_fw_id, issued, cfg, gridfs_fallback, pc, loc, nops>>

\* ------------------------------------------------------- Workflow (model)
\* Workflow.refresh, Workflow.to_db_dict and the aggregate state live in
\* fireworks/core/firework.py; they are modelled from sections 3 and 4.5.
RECURSIVE Closure(_, _, _)
Closure(links, S, k) ==
  IF k = 0 THEN S
  ELSE Closure(links, S \cup UNION {links[n] : n \in S}, k - 1)

\* fw_id and everything downstream of it
Downstream(wf, id) == Closure(wf.links, {id}, Cardinality(wf.nodes))

Parents(wf, n) == {m \in wf.nodes : n \in wf.links[m]}

\* the node states refresh(fw_id) works on: the cached fw_states, except for
\* fw_id and its descendants, whose state is read from the store (read[n])
CurStates(wf, id, read) ==
  [n \in wf.nodes |-> IF n \in Downstream(wf, id) THEN read[n] ELSE wf.fw_states[n]]

\* WAITING -> READY once all parents are COMPLETED
NewStates(wf, id, read) ==
  LET cur == CurStates(wf, id, read) IN
  [n \in wf.nodes |->
     IF /\ n \in Downstream(wf, id)
        /\ cur[n] = "WAITING"
        /\ \A m \in Parents(wf, n) : cur[m] = "COMPLETED"
     THEN "READY" ELSE cur[n]]

\* the aggregate state of section 4.5
Aggregate(st) ==
  LET S == {st[n] : n \in DOMAIN st} IN
  IF S = {"COMPLETED"} THEN "COMPLETED"
  ELSE IF "FIZZLED" \in S /\ S \cap {"READY", "RESERVED", "RUNNING"} = {} THEN "FIZZLED"
  ELSE IF "RUNNING" \in S THEN "RUNNING"
  ELSE IF "READY" \in S THEN "READY"
  ELSE "WAITING"

RECURSIVE SortedSeq(_)
SortedSeq(S) ==
  IF S = {} THEN <<>>
  ELSE LET m == CHOOSE x \in S : \A y \in S : x <= y IN <<m>> \o SortedSeq(S \ {m})

\* --------------------------------------------------------------- _refresh_wf
\* lines 879-892: the query on fw_id (and allowed_states), the $set of
\* updated_on (and of state, when one is given)
RefreshSet(doc, state) ==
  IF state = "None" THEN [doc EXCEPT !.updated_on = now]
  ELSE [doc EXCEPT !.updated_on = now, !.state = state]

RefreshUpdate(p, fw_id, state, allowed_states, op, ret) ==
  LET match == {i \in DocsOf(fw_id) : fireworks[i].state \in allowed_states} IN
  IF match = {}
  THEN \* f is None: line 894 skips the refresh
       /\ fireworks' = fireworks
       /\ pc' = [pc EXCEPT ![p] = ret]
       /\ loc' = [loc EXCEPT ![p].op = op, ![p].out = "nothing", ![p].exc = "none"]
  ELSE \E i \in match :
       /\ fireworks' = [fireworks EXCEPT ![i] = RefreshSet(@, state)]
       /\ pc' = [pc EXCEPT ![p] = "enter"]
       /\ loc' = [loc EXCEPT ![p].op = op, ![p].fw = fw_id, ![p].ctx = "refresh",
                             ![p].ret = ret, ![p].f = TRUE, ![p].out = "none",
                             ![p].exc = "none"]

\* the state arguments and allowed_states the callers pass
RefreshStateArgs == {"None", "DEFUSED"}
AllowedArgs == {States, States \ {"COMPLETED", "ARCHIVED"}}

StartRefresh(p, fw_id, state, allowed_states) ==
  /\ pc[p] = "idle"
  /\ RefreshUpdate(p, fw_id, state, allowed_states, "refresh", "idle")
  /\ UNCHANGED <<workflows, next_fw_id, issued, now, cfg, gridfs_fallback>>
  /\ Began

\* lines 897-898 and 925: load the workflow lazily, refresh it, collect the
\* updated fireworks.  A LazyFirework reads its document with
\* find_one({'fw_id': fw_id}) (lines 1063, 1154): any document of that id.
RefreshRead(p) ==
  /\ pc[p] = "rf_read"
  /\ LET id == loc[p].fw IN
     \/ \* the body raises (line 902: "some kind of internal error", such as a
        \* firework that can no longer be loaded from its db description)
        /\ cfg.faulty
        /\ pc' = [pc EXCEPT ![p] = "exit"]
        /\ loc' = [loc EXCEPT ![p].err = TRUE]
     \/ /\ WfOf(id) # {}
        /\ \E w \in WfOf(id) :
             LET wf == workflows[w] IN
             /\ \A n \in wf.nodes : DocsOf(n) # {}
             /\ \E pick \in [wf.nodes -> DOMAIN fireworks] :
                  /\ \A n \in wf.nodes : pick[n] \in DocsOf(n)
                  /\ LET read == [n \in wf.nodes |-> fireworks[pick[n]].state]
                         cur == CurStates(wf, id, read)
                         new == NewStates(wf, id, read)
                         updated_ids == {n \in wf.nodes : new[n] # cur[n]}
                         ids == SortedSeq(updated_ids)
                         updated_fws ==
                           [k \in DOMAIN ids |->
                              [fireworks[pick[ids[k]]] EXCEPT !.state = new[ids[k]],
                                                              !.updated_on = now]]
                     IN /\ loc' = [loc EXCEPT ![p].wf = [wf EXCEPT !.fw_states = new,
                                                                   !.state = Aggregate(new)],
                                              ![p].ups = updated_fws]
                        /\ pc' = [pc EXCEPT ![p] = IF updated_fws = <<>> THEN "rf_replace"
                                                   ELSE "rf_upsert"]
  /\ UNCHANGED <<fireworks, workflows, next_fw_id, issued, now, cfg, gridfs_fallback, nops>>

\* lines 824-827: find_one_and_replace on (fw_id, launch_idx) with upsert=True
Upsert(coll, doc) ==
  LET match == {i \in DOMAIN coll : /\ coll[i].fw_id = doc.fw_id
                                    /\ coll[i].launch_idx = doc.launch_idx} IN
  IF match = {} THEN {Append(coll, doc)}
  ELSE {[coll EXCEPT ![i] = doc] : i \in match}

\* line 926: _upsert_fws(updated_fws), one firework per step
RefreshUpsert(p) ==
  /\ pc[p] = "rf_upsert"
  /\ fireworks' \in Upsert(fireworks, Head(loc[p].ups))
  /\ Len(fireworks') <= MaxDocs
  /\ loc' = [loc EXCEPT ![p].ups = Tail(@)]
  /\ pc' = [pc EXCEPT ![p] = IF Tail(loc[p].ups) = <<>> THEN "rf_replace" ELSE "rf_upsert"]
  /\ UNCHANGED <<workflows, next_fw_id, issued, now, cfg, gridfs_fallback, nops>>

\* the workflow document as to_db_dict gives it, without a locked field
DropLock(wf) == [wf EXCEPT !.locked = FALSE]

\* lines 939-940: wf.to_db_dict() with wf['locked'] = True
PreserveLock(wf) == [wf EXCEPT !.locked = TRUE]

\* lines 929-943: replace the workflow document, with locked kept set
RefreshReplace(p) ==
  /\ pc[p] = "rf_replace"
  /\ LET wf == loc[p].wf
         query_node == CHOOSE n \in wf.nodes : \A m \in wf.nodes : n <= m
     IN IF WfOf(query_node) = {}
        THEN \* BAD QUERY_NODE
             /\ workflows' = workflows
             /\ loc' = [loc EXCEPT ![p].err = TRUE]
        ELSE /\ \E w \in WfOf(query_node) :
                  workflows' = [workflows EXCEPT ![w] = PreserveLock(wf)]
             /\ loc' = loc
  /\ pc' = [pc EXCEPT ![p] = "exit"]
  /\ UNCHANGED <<fireworks, next_fw_id, issued, now, cfg, gridfs_fallback, nops>>

\* line 906
RefreshFizzleFw(p) ==
  /\ pc[p] = "rf_fizzle_fw"
  /\ IF DocsOf(loc[p].fw) = {} THEN fireworks' = fireworks
     ELSE \E i \in DocsOf(loc[p].fw) :
            fireworks' = [fireworks EXCEPT ![i].state = "FIZZLED"]
  /\ pc' = [pc EXCEPT ![p] = "rf_fizzle_wf"]
  /\ UNCHANGED <<workflows, next_fw_id, issued, now, cfg, gridfs_fallback, loc, nops>>

\* line 907
RefreshFizzleWf(p) ==
  /\ pc[p] = "rf_fizzle_wf"
  /\ IF WfOf(loc[p].fw) = {} THEN workflows' = workflows
     ELSE \E w \in WfOf(loc[p].fw) :
            workflows' = [workflows EXCEPT ![w].state = "FIZZLED"]
  /\ pc' = [pc EXCEPT ![p] = "rf_fizzle_st"]
  /\ UNCHANGED <<fireworks, next_fw_id, issued, now, cfg, gridfs_fallback, loc, nops>>

\* lines 908-913: the fw_states entry, then RuntimeError to the caller
RefreshFizzleStates(p) ==
  /\ pc[p] = "rf_fizzle_st"
  /\ IF WfOf(loc[p].fw) = {} THEN workflows' = workflows
     ELSE \E w \in WfOf(loc[p].fw) :
            workflows' = [workflows EXCEPT ![w].fw_states[loc[p].fw] = "FIZZLED"]
  /\ Finish(p, "RuntimeError")
  /\ UNCHANGED <<fireworks, next_fw_id, issued, now, cfg, gridfs_fallback, nops>>

\* ---------------------------------------------------------- the dispatcher
\* a sort that leaves launch_idx out
BeforeByCreation(a, b) ==
  \/ a.priority > b.priority
  \/ /\ a.priority = b.priority
     /\ \/ cfg.sort_fws = "FIFO" /\ a.created_on < b.created_on
        \/ cfg.sort_fws = "FILO" /\ a.created_on > b.created_on

\* the sort of lines 580-585: does document a come before document b
Before(a, b) ==
  \/ a.priority > b.priority
  \/ /\ a.priority = b.priority
     /\ \/ a.launch_idx > b.launch_idx
        \/ /\ a.launch_idx = b.launch_idx
           /\ \/ cfg.sort_fws = "FIFO" /\ a.created_on < b.created_on
              \/ cfg.sort_fws = "FILO" /\ a.created_on > b.created_on

\* the filter without its restriction to READY documents
MatchesReserved(doc, query, fw_id) ==
  IF fw_id # 0
  THEN doc.fw_id = fw_id /\ doc.state \in {"READY", "RESERVED"}
  ELSE doc.state \in {"READY", "RESERVED"} /\ doc.priority \in query

\* lines 578-579 and 588-589: the filter.  The caller's query selects on
\* spec._priority; a given fw_id overrides it.
Matches(doc, query, fw_id) ==
  IF fw_id # 0
  THEN doc.fw_id = fw_id /\ doc.state \in {"READY", "RESERVED"}
  ELSE doc.state = "READY" /\ doc.priority \in query

\* the documents find_one(_and_update) with that filter and sort may return
Candidates(query, fw_id) ==
  LET S == {i \in DOMAIN fireworks : Matches(fireworks[i], query, fw_id)} IN
  {i \in S : \A j \in S : ~Before(fireworks[j], fireworks[i])}

\* lines 595-596
Reserve(doc) == [doc EXCEPT !.state = "RESERVED", !.updated_on = now]

\* lines 591-602: one pass of the loop up to the store call
FindFw(p) ==
  IF Candidates(loc[p].query, loc[p].arg) = {}
  THEN /\ fireworks' = fireworks
       /\ Finish(p, "None")
  ELSE \E i \in Candidates(loc[p].query, loc[p].arg) :
       /\ fireworks' = IF loc[p].checkout THEN [fireworks EXCEPT ![i] = Reserve(@)]
                       ELSE fireworks
       /\ pc' = [pc EXCEPT ![p] = "gf_load"]
       /\ loc' = [loc EXCEPT ![p].fw = fireworks[i].fw_id, ![p].found = fireworks[i],
                             ![p].reserved =
                                IF loc[p].checkout /\ fireworks[i].state # "RESERVED"
                                THEN @ \cup {fireworks[i].fw_id} ELSE @]

Priorities == {5, 10}
QueryArgs == {Priorities, {10}}

\* _get_a_fw_to_run(query, fw_id, checkout), entered at line 578
StartReserve(p, query, fw_id, checkout) ==
  /\ pc[p] = "idle"
  /\ pc' = [pc EXCEPT ![p] = "gf_find"]
  /\ loc' = [loc EXCEPT ![p] = [Idle EXCEPT !.op = "reserve", !.query = query,
                                            !.arg = fw_id, !.checkout = checkout,
                                            !.t0 = now]]
  /\ UNCHANGED <<fireworks, workflows, next_fw_id, issued, now, cfg, gridfs_fallback>>
  /\ Began

GetFwFind(p) ==
  /\ pc[p] = "gf_find"
  /\ FindFw(p)
  /\ UNCHANGED <<workflows, next_fw_id, issued, now, cfg, gridfs_fallback, nops>>

\* line 603: get_fw_by_id, whose body (lines 271-275, 303) takes the document
\* with the highest launch_idx of that fw_id
GetFwLoad(p) ==
  /\ pc[p] = "gf_load"
  /\ IF LatestOf(loc[p].fw) = {}
     THEN Finish(p, "ValueError")
     ELSE \E i \in LatestOf(loc[p].fw) :
            /\ pc' = [pc EXCEPT ![p] = "gf_steal"]
            /\ loc' = [loc EXCEPT ![p].m_fw = fireworks[i]]
  /\ UNCHANGED <<fireworks, workflows, next_fw_id, issued, now, cfg, gridfs_fallback, nops>>

\* lines 955-960: the documents the dupefinder's query selects for the thief:
\* those carrying the same spec (with its _dupefinder); by the policy of the
\* dupefinder the thief's own documents are among them or not
PotentialMatches(thief_fw) ==
  {i \in DOMAIN fireworks :
     /\ fireworks[i].dupefinder
     /\ fireworks[i].priority = thief_fw.priority
     /\ cfg.query_self \/ fireworks[i].fw_id # thief_fw.fw_id}

\* lines 953-992: _steal_launches; verify() accepts every candidate.  The
\* victim is written by _update_fw (lines 769-771), which sets state_history
\* and trackers of a RUNNING document only.
StolenFromReady(thief_fw) ==
  IF thief_fw.state = "READY" /\ thief_fw.dupefinder
  THEN {fireworks[i].fw_id : i \in PotentialMatches(thief_fw)}
  ELSE {}

StolenFrom(thief_fw) ==
  IF thief_fw.state \in {"READY", "RESERVED"} /\ thief_fw.dupefinder
  THEN {fireworks[i].fw_id : i \in PotentialMatches(thief_fw)}
  ELSE {}

\* lines 553-555 and 604-605
GetFwSteal(p) ==
  /\ pc[p] = "gf_steal"
  /\ LET stolen == StolenFrom(loc[p].m_fw) IN
     IF stolen = {}
     THEN /\ pc' = [pc EXCEPT ![p] = "idle"]
          /\ loc' = [loc EXCEPT ![p] = [Idle EXCEPT !.op = "reserve",
                                                    !.arg = loc[p].arg,
                                                    !.found = loc[p].found,
                                                    !.checkout = loc[p].checkout,
                                                    !.query = loc[p].query,
                                                    !.t0 = loc[p].t0,
                                                    !.m_fw = loc[p].m_fw,
                                                    !.out = "returned"]]
     ELSE /\ pc' = [pc EXCEPT ![p] = "gf_upsert"]
          /\ loc' = [loc EXCEPT ![p].m_fw.duplicates = @ \cup stolen]
  /\ UNCHANGED <<fireworks, workflows, next_fw_id, issued, now, cfg, gridfs_fallback, nops>>

\* line 556: _upsert_fws([m_fw])
GetFwUpsert(p) ==
  /\ pc[p] = "gf_upsert"
  /\ fireworks' \in Upsert(fireworks, loc[p].m_fw)
  /\ Len(fireworks') <= MaxDocs
  /\ pc' = [pc EXCEPT ![p] = "gf_refresh"]
  /\ UNCHANGED <<workflows, next_fw_id, issued, now, cfg, gridfs_fallback, loc, nops>>

\* line 557: _refresh_wf(m_fw.fw_id), then back to line 591
GetFwRefresh(p) ==
  /\ pc[p] = "gf_refresh"
  /\ RefreshUpdate(p, loc[p].m_fw.fw_id, "None", States, "reserve", "gf_find")
  /\ UNCHANGED <<workflows, next_fw_id, issued, now, cfg, gridfs_fallback, nops>>

\* ------------------------------------------------------- cancel_reservation
\* lines 652-653
StartCancel(p, fw_id) ==
  /\ pc[p] = "idle"
  /\ IF LatestOf(fw_id) = {}
     THEN /\ pc' = pc
          /\ loc' = [loc EXCEPT ![p] = [Idle EXCEPT !.op = "cancel", !.arg = fw_id,
                                                    !.out = "ValueError"]]
     ELSE \E i \in LatestOf(fw_id) :
          /\ pc' = [pc EXCEPT ![p] = "cr_replace"]
          /\ loc' = [loc EXCEPT ![p] = [Idle EXCEPT !.op = "cancel", !.arg = fw_id,
                                          !.m_fw = [fireworks[i] EXCEPT !.state = "READY"]]]
  /\ UNCHANGED <<fireworks, workflows, next_fw_id, issued, now, cfg, gridfs_fallback>>
  /\ Began

\* lines 654-655: find_one_and_replace({'fw_id', 'state': 'RESERVED'}, m_fw, upsert=True)
ReplaceReserved(coll, doc) ==
  LET match == {i \in DOMAIN coll : coll[i].fw_id = doc.fw_id /\ coll[i].state = "RESERVED"} IN
  IF match = {} THEN {Append(coll, doc)}
  ELSE {[coll EXCEPT ![i] = doc] : i \in match}

CancelReplace(p) ==
  /\ pc[p] = "cr_replace"
  /\ fireworks' \in ReplaceReserved(fireworks, loc[p].m_fw)
  /\ Len(fireworks') <= MaxDocs
  /\ pc' = [pc EXCEPT ![p] = "rerun"]
  /\ UNCHANGED <<workflows, next_fw_id, issued, now, cfg, gridfs_fallback, loc, nops>>

\* rerun_fw (line 657) is not part of this file; it is modelled from sections
\* 4.5 and 4.7: a firework whose latest launch is RUNNING, COMPLETED or FIZZLED
\* gets a new launch (launch_idx + 1) in state READY, then the workflow is
\* refreshed.
NeedsNewLaunch(doc) == doc.state \in Terminal \cup {"RUNNING"}

NewLaunch(doc) ==
  [doc EXCEPT !.launch_idx = @ + 1, !.state = "READY", !.updated_on = now,
              !.duplicates = {}]

RerunFw(p) ==
  /\ pc[p] = "rerun"
  /\ IF LatestOf(loc[p].arg) = {}
     THEN fireworks' = fireworks
     ELSE \E i \in LatestOf(loc[p].arg) :
            IF NeedsNewLaunch(fireworks[i])
            THEN /\ Len(fireworks) < MaxDocs
                 /\ fireworks' = Append(fireworks, NewLaunch(fireworks[i]))
            ELSE fireworks' = fireworks
  /\ pc' = [pc EXCEPT ![p] = "rr_refresh"]
  /\ UNCHANGED <<workflows, next_fw_id, issued, now, cfg, gridfs_fallback, loc, nops>>

RerunRefresh(p) ==
  /\ pc[p] = "rr_refresh"
  /\ RefreshUpdate(p, loc[p].arg, "None", States, loc[p].op, loc[p].after)
  /\ UNCHANGED <<workflows, next_fw_id, issued, now, cfg, gridfs_fallback, nops>>

StartRerun(p, fw_id) ==
  /\ pc[p] = "idle"
  /\ pc' = [pc EXCEPT ![p] = "rerun"]
  /\ loc' = [loc EXCEPT ![p] = [Idle EXCEPT !.op = "rerun", !.arg = fw_id]]
  /\ UNCHANGED <<fireworks, workflows, next_fw_id, issued, now, cfg, gridfs_fallback>>
  /\ Began

\* -------------------------------------------------------- detect_unreserved
\* lines 675-684: the documents in state RESERVED whose state_history has an
\* element ($elemMatch) in state RESERVED that is no younger than the cutoff
BadLaunchData(expiration_secs) ==
  {i \in DOMAIN fireworks :
     /\ fireworks[i].state = "RESERVED"
     /\ \E k \in DOMAIN fireworks[i].state_history :
          /\ fireworks[i].state_history[k].state = "RESERVED"
          /\ fireworks[i].state_history[k].updated_on <= now - expiration_secs}

\* the expiration times and rerun flags the callers pass
ExpirationArgs == {1, 2}

\* the fw_ids of the documents a cursor returns, in the order of the collection
FwIdsOf(S) ==
  LET idx == SortedSeq(S) IN [k \in 1..Len(idx) |-> fireworks[idx[k]].fw_id]

\* detect_unreserved(expiration_secs, rerun), lines 673-689: the find, and
\* the return when no reservation is to be cancelled
StartDetect(p, expiration_secs, rerun) ==
  /\ pc[p] = "idle"
  /\ LET bad_launch_data == FwIdsOf(BadLaunchData(expiration_secs)) IN
     /\ pc' = [pc EXCEPT ![p] = IF rerun /\ bad_launch_data # <<>> THEN "du_cancel"
                                ELSE "idle"]
     /\ loc' = [loc EXCEPT ![p] =
                  [Idle EXCEPT !.op = "detect", !.secs = expiration_secs, !.rerun = rerun,
                               !.t0 = now,
                               !.bad = bad_launch_data, !.todo = bad_launch_data,
                               !.out = IF rerun /\ bad_launch_data # <<>> THEN "none"
                                       ELSE "detected"]]
  /\ UNCHANGED <<fireworks, workflows, next_fw_id, issued, now, cfg, gridfs_fallback>>
  /\ Began

\* line 688: cancel_reservation of the next fw_id, up to its get_fw_by_id
\* (lines 652-653)
DetectCancel(p) ==
  /\ pc[p] = "du_cancel"
  /\ LET fw_id == Head(loc[p].todo) IN
     IF LatestOf(fw_id) = {}
     THEN /\ pc' = [pc EXCEPT ![p] = "idle"]
          /\ loc' = [loc EXCEPT ![p] = [Idle EXCEPT !.op = "detect", !.out = "ValueError",
                                                    !.exc = "ValueError"]]
     ELSE \E i \in LatestOf(fw_id) :
          /\ pc' = [pc EXCEPT ![p] = "cr_replace"]
          /\ loc' = [loc EXCEPT ![p].arg = fw_id, ![p].after = "du_next",
                                ![p].m_fw = [fireworks[i] EXCEPT !.state = "READY"]]
  /\ UNCHANGED <<fireworks, workflows, next_fw_id, issued, now, cfg, gridfs_fallback, nops>>

\* lines 687-689: the next fw_id of the loop, or the return
DetectNext(p) ==
  /\ pc[p] = "du_next"
  /\ IF Tail(loc[p].todo) = <<>>
     THEN /\ pc' = [pc EXCEPT ![p] = "idle"]
          /\ loc' = [loc EXCEPT ![p] = [Idle EXCEPT !.op = "detect", !.out = "detected",
                                                    !.secs = loc[p].secs,
                                                    !.rerun = TRUE,
                                                    !.t0 = loc[p].t0,
                                                    !.bad = loc[p].bad]]
     ELSE /\ pc' = [pc EXCEPT ![p] = "du_cancel"]
          /\ loc' = [loc EXCEPT ![p].todo = Tail(@)]
  /\ UNCHANGED <<fireworks, workflows, next_fw_id, issued, now, cfg, gridfs_fallback, nops>>

\* ------------------------------------------------------------------ checkin
\* the worker applies the new state to its firework (section 4.5, step 1) and
\* calls _checkin_fw(m_fw, action, state); the scenario of section 8 checks a
\* reserved firework in as COMPLETED, and _checkin_fw looks at no state
WorkerMoves == {<<"RESERVED", "RUNNING">>, <<"RUNNING", "COMPLETED">>,
                <<"RUNNING", "FIZZLED">>, <<"RESERVED", "COMPLETED">>}

\* the sizes of an action's data and of the rest of a document, with the
\* store's limit on a document (16MB, line 1210)
MaxBsonSize == 16
ActionSizes == {0, 1, MaxBsonSize}
SpecSizes == {1, MaxBsonSize + 1}

\* self.gridfs_fallback (lines 165-168): None, or a GridFS collection
NoGridFS == [configured |-> FALSE, files |-> <<>>]
GridFS == [configured |-> TRUE, files |-> <<>>]

\* "gridfs_id" in action_dict
HasKey(action_dict) == action_dict.gridfs_id # NoKey

\* a test that takes no action for empty
EmptyNever(action_dict) == FALSE

\* not action_dict: the empty dictionary
Empty(action_dict) == ~HasKey(action_dict) /\ action_dict.stored_data = 0

\* str(action_id) and ObjectId(...) of that string
Str(action_id) == <<"oid", action_id>>
ObjectId(s) == s[2]

\* json.dumps(action_dict) and json.loads of what was read
Dumps(action_dict) == <<"json", action_dict.gridfs_id, action_dict.stored_data>>
Loads(data) == [gridfs_id |-> data[2], stored_data |-> data[3]]

\* line 746: {"gridfs_id": str(action_id)}
GridfsRef(action_id) == [gridfs_id |-> Str(action_id), stored_data |-> 0]

\* the store raises DocumentTooLarge for this document
SizeOf(doc) == doc.spec_size + (IF HasKey(doc.action) THEN 1 ELSE doc.action.stored_data)
TooLarge(doc) == SizeOf(doc) > MaxBsonSize

\* metadata that names the launch too
MetadataWithLaunch(m_fw) == [fw_id |-> m_fw.fw_id, launch_idx |-> m_fw.launch_idx]

\* line 745: metadata={"fw_id": fw_id}, read as the id of m_fw
Metadata(m_fw) == [fw_id |-> m_fw.fw_id]

\* lines 1199-1221: get_action_from_gridfs
get_action_from_gridfs(action_dict, fallback_fs) ==
  IF Empty(action_dict) \/ ~HasKey(action_dict) THEN action_dict
  ELSE Loads(fallback_fs.files[ObjectId(action_dict.gridfs_id)].data)

StartCheckin(p, i, action, state, size) ==
  /\ pc[p] = "idle"
  /\ i \in DOMAIN fireworks
  /\ <<fireworks[i].state, state>> \in WorkerMoves
  /\ pc' = [pc EXCEPT ![p] = "ci_write"]
  /\ loc' = [loc EXCEPT ![p] =
               [Idle EXCEPT !.op = "checkin", !.arg = fireworks[i].fw_id,
                            !.m_fw = [fireworks[i] EXCEPT
                                        !.action = action,
                                        !.spec_size = size,
                                        !.state_history =
                                           Append(@, [state |-> state, updated_on |-> now]),
                                        !.state = state,
                                        !.updated_on = now]]]
  /\ UNCHANGED <<fireworks, workflows, next_fw_id, issued, now, cfg, gridfs_fallback>>
  /\ Began

\* the end of _checkin_fw: its return, or the DocumentTooLarge it raises
CheckinDone(p, out) ==
  /\ pc' = [pc EXCEPT ![p] = "idle"]
  /\ loc' = [loc EXCEPT ![p] = [Idle EXCEPT !.op = "checkin", !.out = out,
                                            !.exc = IF out \in Errors THEN out ELSE "none",
                                            !.arg = loc[p].arg,
                                            !.m_fw = loc[p].m_fw,
                                            !.rejected = loc[p].rejected \/ pc[p] = "ci_write",
                                            !.action_id = loc[p].action_id]]

\* lines 727-741: the replace, and what follows when the store rejects it
CheckinWrite(p) ==
  /\ pc[p] = "ci_write"
  /\ IF ~TooLarge(loc[p].m_fw)
     THEN /\ fireworks' \in Upsert(fireworks, loc[p].m_fw)
          /\ Len(fireworks') <= MaxDocs
          /\ pc' = [pc EXCEPT ![p] = "ci_dups"]
          /\ loc' = loc
     ELSE /\ fireworks' = fireworks
          /\ IF Empty(loc[p].m_fw.action) \/ ~gridfs_fallback.configured
             THEN CheckinDone(p, "DocumentTooLarge")
             ELSE /\ pc' = [pc EXCEPT ![p] = "ci_put"]
                  /\ loc' = [loc EXCEPT ![p].rejected = TRUE, ![p].db_dict = loc[p].m_fw]
  /\ UNCHANGED <<workflows, next_fw_id, issued, now, cfg, gridfs_fallback, nops>>

\* lines 744-746: gridfs_fallback.put, and the action of fw_db_dict replaced
CheckinPut(p) ==
  /\ pc[p] = "ci_put"
  /\ LET action_id == Len(gridfs_fallback.files) + 1 IN
     /\ gridfs_fallback' =
          [gridfs_fallback EXCEPT !.files =
             Append(@, [data |-> Dumps(loc[p].db_dict.action),
                        metadata |-> Metadata(loc[p].m_fw)])]
     /\ loc' = [loc EXCEPT ![p].action_id = action_id,
                           ![p].db_dict.action = GridfsRef(action_id)]
  /\ pc' = [pc EXCEPT ![p] = "ci_retry"]
  /\ UNCHANGED <<fireworks, workflows, next_fw_id, issued, now, cfg, nops>>

\* lines 750-751: the replace again, outside the try
CheckinRetry(p) ==
  /\ pc[p] = "ci_retry"
  /\ IF ~TooLarge(loc[p].db_dict)
     THEN /\ fireworks' \in Upsert(fireworks, loc[p].db_dict)
          /\ Len(fireworks') <= MaxDocs
          /\ pc' = [pc EXCEPT ![p] = "ci_dups"]
          /\ loc' = loc
     ELSE /\ fireworks' = fireworks
          /\ CheckinDone(p, "DocumentTooLarge")
  /\ UNCHANGED <<workflows, next_fw_id, issued, now, cfg, gridfs_fallback, nops>>

\* lines 837-842: _get_duplicates.  The filter of line 839 is a dict literal
\* with the key "fw_id" twice, so only {"fw_id": {"$ne": fw_id}} is sent.
GetDuplicates(fw_id) ==
  IF \E i \in DocsOf(fw_id) : fireworks[i].duplicates # {}
  THEN {fireworks[i].fw_id : i \in {j \in DOMAIN fireworks : fireworks[j].fw_id # fw_id}}
  ELSE {}

\* line 755
CheckinDuplicates(p) ==
  /\ pc[p] = "ci_dups"
  /\ LET todo == SortedSeq(GetDuplicates(loc[p].arg)) IN
     IF todo = <<>> THEN CheckinDone(p, "checked_in")
     ELSE /\ pc' = [pc EXCEPT ![p] = "ci_refresh"]
          /\ loc' = [loc EXCEPT ![p].todo = todo]
  /\ UNCHANGED <<fireworks, workflows, next_fw_id, issued, now, cfg, gridfs_fallback, nops>>

\* line 756, once per duplicate
CheckinRefresh(p) ==
  /\ pc[p] = "ci_refresh"
  /\ RefreshUpdate(p, Head(loc[p].todo), "None", States, "checkin", "ci_next")
  /\ UNCHANGED <<workflows, next_fw_id, issued, now, cfg, gridfs_fallback, nops>>

CheckinNext(p) ==
  /\ pc[p] = "ci_next"
  /\ IF Tail(loc[p].todo) = <<>> THEN CheckinDone(p, "checked_in")
     ELSE /\ pc' = [pc EXCEPT ![p] = "ci_refresh"]
          /\ loc' = [loc EXCEPT ![p].todo = Tail(@)]
  /\ UNCHANGED <<fireworks, workflows, next_fw_id, issued, now, cfg, gridfs_fallback, nops>>

\* ------------------------------------------------------------ get_fw_by_id
\* what Firework.from_dict (line 303) makes of the action of the document: it
\* is given the document alone, and no handle on the GridFS collection
from_dict(fw_dict) == fw_dict

\* lines 271-275 and 303: the document with the highest launch_idx, as a
\* Firework; lines 277-291 are a string literal after the return
GetFwById(p, fw_id) ==
  /\ pc[p] = "idle"
  /\ IF LatestOf(fw_id) = {}
     THEN loc' = [loc EXCEPT ![p] = [Idle EXCEPT !.op = "get_fw", !.arg = fw_id,
                                                 !.out = "ValueError", !.exc = "ValueError"]]
     ELSE \E i \in LatestOf(fw_id) :
            loc' = [loc EXCEPT ![p] = [Idle EXCEPT !.op = "get_fw", !.arg = fw_id,
                                                   !.out = "found",
                                                   !.found = fireworks[i],
                                                   !.m_fw = from_dict(fireworks[i])]]
  /\ UNCHANGED <<fireworks, workflows, next_fw_id, issued, now, cfg, gridfs_fallback, pc>>
  /\ Began

\* the fw_ids the readers are called with: the stored ones and one that no
\* document and no workflow carries
LookupArgs == {1, 2, 3, 4}

\* lines 314-320: get_wf_by_fw_id.  The Workflow is built from get_fw_by_id
\* of every node, which raises when a node has no document.
GetWfByFwId(p, fw_id) ==
  /\ pc[p] = "idle"
  /\ IF WfOf(fw_id) = {}
     THEN loc' = [loc EXCEPT ![p] = [Idle EXCEPT !.op = "get_wf", !.arg = fw_id,
                                                 !.out = "ValueError", !.exc = "ValueError"]]
     ELSE \E w \in WfOf(fw_id) :
            IF \E n \in workflows[w].nodes : LatestOf(n) = {}
            THEN loc' = [loc EXCEPT ![p] = [Idle EXCEPT !.op = "get_wf", !.arg = fw_id,
                                                        !.out = "ValueError",
                                                        !.exc = "ValueError"]]
            ELSE loc' = [loc EXCEPT ![p] = [Idle EXCEPT !.op = "get_wf", !.arg = fw_id,
                                                        !.out = "found",
                                                        !.wf = workflows[w]]]
  /\ UNCHANGED <<fireworks, workflows, next_fw_id, issued, now, cfg, gridfs_fallback, pc>>
  /\ Began

\* ------------------------------------------------------------------ _recover
\* documents carry the optional keys "checkpoint" (in a state_history entry),
\* "launch_dir", and the spec keys "_recovery" and "_launch_dir"
Get(d, key) == IF key \in DOMAIN d THEN d[key] ELSE NoKey

\* the update operators $set and $unset on one key of a document
Set(d, key, value) == (key :> value) @@ d
Unset(d, key) == [k \in DOMAIN d \ {key} |-> d[k]]

\* lines 863 and 868: the filter {"fw_id": fw_id, "launch_idx": -1}
RecoverFilter(fw_id) ==
  {i \in DOMAIN fireworks : fireworks[i].fw_id = fw_id /\ fireworks[i].launch_idx = 0 - 1}

\* find_one_and_update(filter, update): one matching document, if any, is
\* replaced by its updated form
FindOneAndUpdate(S, updated) ==
  IF S = {} THEN {fireworks}
  ELSE {[fireworks EXCEPT ![i] = updated[i]] : i \in S}

\* the recover_launch arguments: none, or a recovery mode
RecoverArgs == {"None", "prev_dir", "cp"}

\* _recover(fw_id, recover_launch), lines 852-854 or 866-868.  The names
\* launch and recover_mode of lines 855-860 are bound nowhere; they are read
\* as m_fw and recover_launch.
StartRecover(p, fw_id, recover_launch) ==
  /\ pc[p] = "idle"
  /\ IF recover_launch = "None"
     THEN /\ fireworks' \in FindOneAndUpdate(RecoverFilter(fw_id),
                 [i \in DOMAIN fireworks |-> Unset(fireworks[i], "_recovery")])
          /\ pc' = pc
          /\ loc' = [loc EXCEPT ![p] = [Idle EXCEPT !.op = "recover", !.arg = fw_id,
                                                    !.ctx = recover_launch,
                                                    !.out = "cleared"]]
     ELSE /\ fireworks' = fireworks
          /\ IF LatestOf(fw_id) = {}
             THEN /\ pc' = pc
                  /\ loc' = [loc EXCEPT ![p] = [Idle EXCEPT !.op = "recover", !.arg = fw_id,
                                                            !.ctx = recover_launch,
                                                            !.out = "ValueError",
                                                            !.exc = "ValueError"]]
             ELSE \E i \in LatestOf(fw_id) :
                  LET h == fireworks[i].state_history IN
                  IF "checkpoint" \notin DOMAIN h[Len(h)]
                  THEN /\ pc' = pc
                       /\ loc' = [loc EXCEPT ![p] = [Idle EXCEPT !.op = "recover",
                                                                 !.arg = fw_id,
                                                                 !.ctx = recover_launch,
                                                                 !.m_fw = fireworks[i],
                                                                 !.out = "AttributeError",
                                                                 !.exc = "AttributeError"]]
                  ELSE /\ pc' = [pc EXCEPT ![p] = "rc_update"]
                       /\ loc' = [loc EXCEPT ![p] = [Idle EXCEPT !.op = "recover",
                                                                 !.arg = fw_id,
                                                                 !.ctx = recover_launch,
                                                                 !.m_fw = fireworks[i]]]
  /\ UNCHANGED <<workflows, next_fw_id, issued, now, cfg, gridfs_fallback>>
  /\ Began

\* lines 855-860: the recovery written to spec._recovery
Recovery(m_fw, recover_mode) ==
  [checkpoint |-> Get(m_fw.state_history[Len(m_fw.state_history)], "checkpoint"),
   _prev_dir |-> Get(m_fw, "launch_dir"),
   _launch_id |-> m_fw.launch_idx,
   _mode |-> recover_mode]

\* lines 859-863: the $set and its find_one_and_update
RecoverUpdate(p) ==
  /\ pc[p] = "rc_update"
  /\ LET m_fw == loc[p].m_fw
         set_spec(d) ==
           LET r == Set(d, "_recovery", Recovery(m_fw, loc[p].ctx)) IN
           IF loc[p].ctx = "prev_dir" THEN Set(r, "_launch_dir", Get(m_fw, "launch_dir"))
           ELSE r
     IN fireworks' \in FindOneAndUpdate(RecoverFilter(loc[p].arg),
                                        [i \in DOMAIN fireworks |-> set_spec(fireworks[i])])
  /\ pc' = [pc EXCEPT ![p] = "idle"]
  /\ loc' = [loc EXCEPT ![p].out = "recovered"]
  /\ UNCHANGED <<workflows, next_fw_id, issued, now, cfg, gridfs_fallback, nops>>

\* --------------------------------------------------------------- ForeachTask
\* dataflow_tasks.py, lines 287-315.  The split lists and the numbers of
\* chunks the task is run with; 0 stands for a parameter that is not given.
MaxSplit == 5
MaxChunks == 5

SplitLists == UNION {[1..n -> {1, 2}] : n \in 1..MaxSplit}
ChunkArgs == 0..MaxChunks

\* range(start, stop, step), as the sequence of its values
Range(start, stop, step) ==
  [k \in 1..((stop - start + step - 1) \div step) |-> start + (k - 1) * step]

\* the slice l[i:j] of a list indexed from 0; j is cut at the end of the list
Slice(l, i, j) == SubSeq(l, i + 1, IF j < Len(l) THEN j ELSE Len(l))

\* lines 300-306: the chunks of split_field
ChunkLen(lensplit, number_of_chunks) ==
  LET nchunks == IF number_of_chunks = 0 THEN lensplit ELSE number_of_chunks IN
  IF lensplit % nchunks > 0 THEN lensplit \div nchunks + 1 ELSE lensplit \div nchunks

Chunks(split_field, number_of_chunks) ==
  LET lensplit == Len(split_field)
      chunklen == ChunkLen(lensplit, number_of_chunks)
      starts == Range(0, lensplit, chunklen)
  IN [k \in DOMAIN starts |-> Slice(split_field, starts[k], starts[k] + chunklen)]

\* lines 308-315: one detour firework for each chunk
Detours(chunks) ==
  [k \in DOMAIN chunks |-> [chunk_number |-> k - 1, split |-> chunks[k]]]

\* run_task (lines 287-315) on a spec whose split list is split_field; the
\* list is not empty (line 298)
ForeachTask(p, split_field, number_of_chunks) ==
  /\ pc[p] = "idle"
  /\ split_field # <<>>
  /\ loc' = [loc EXCEPT ![p] = [Idle EXCEPT !.op = "foreach", !.arg = number_of_chunks,
                                            !.todo = split_field,
                                            !.fws = Detours(Chunks(split_field,
                                                                   number_of_chunks)),
                                            !.out = "detours"]]
  /\ UNCHANGED <<fireworks, workflows, next_fw_id, issued, now, cfg, gridfs_fallback, pc, nops>>

\* --------------------------------------------------------------- get_fw_ids
\* the queries (on state, or none), limits and count_only flags of the callers
CriteriaArgs == {States, {"READY"}, {"RESERVED"}}
LimitArgs == {0, 1, 2}

\* cursor.limit(limit): 0 is no limit
Limit(ids, limit) ==
  IF limit = 0 \/ limit >= Len(ids) THEN ids ELSE SubSeq(ids, 1, limit)

\* what a call hands to its caller: a count, a list of fw_ids, or an
\* exception object as a value
Value(kind, count, fw_ids, error) ==
  [kind |-> kind, count |-> count, fw_ids |-> fw_ids, error |-> error]

\* get_fw_ids(query, sort=None, limit, count_only), lines 436-461
GetFwIds(p, criteria, limit, count_only) ==
  /\ pc[p] = "idle"
  /\ LET S == {i \in DOMAIN fireworks : fireworks[i].state \in criteria}
         result == IF count_only
                   THEN IF limit # 0
                        THEN Value("error", 0, <<>>, "ValueError")
                        ELSE Value("count", Cardinality(S), <<>>, "none")
                   ELSE Value("list", 0, Limit(FwIdsOf(S), limit), "none")
     IN loc' = [loc EXCEPT ![p] = [Idle EXCEPT !.op = "get_fw_ids", !.query = criteria,
                                               !.limit = limit, !.count_only = count_only,
                                               !.out = "returned", !.value = result]]
  /\ UNCHANGED <<fireworks, workflows, next_fw_id, issued, now, cfg, gridfs_fallback, pc>>
  /\ Began

\* -------------------------------------------------------------- update_spec
\* the spec documents of the callers, as a key and its value: a key of the
\* spec when mongo is false, the path of an update in mongo syntax when true
SpecDocuments == {<<"_priority", 10>>, <<"state", "DEFUSED">>}
MongoDocuments == {<<"spec._priority", 10>>, <<"state", "DEFUSED">>}
FwIdsArgs == {{1}, {2, 3}, {1, 2, 3}}

\* line 210: "spec." + k
SpecPath(k) == IF k = "_priority" THEN "spec._priority" ELSE "spec.state"

\* $set of one path of a document; spec._priority is the field priority of
\* the model's documents, any other path is a key of the document
SetPath(d, path, value) ==
  IF path = "spec._priority" THEN [d EXCEPT !.priority = value] ELSE Set(d, path, value)

\* line 212
UpdatableStates == {"READY", "WAITING", "FIZZLED", "DEFUSED", "PAUSED"}

\* update_spec(fw_ids, spec_document, mongo), lines 207-218: the update_many;
\* the find that follows only logs.  arg records which of the clients'
\* operations this call is (history, the program does not read it)
UpdateSpec(p, fw_ids, spec_document, mongo) ==
  /\ pc[p] = "idle"
  /\ LET path == IF mongo THEN spec_document[1] ELSE SpecPath(spec_document[1]) IN
     /\ fireworks' =
          [i \in DOMAIN fireworks |->
             IF fireworks[i].fw_id \in fw_ids /\ fireworks[i].state \in UpdatableStates
             THEN SetPath(fireworks[i], path, spec_document[2])
             ELSE fireworks[i]]
     /\ loc' = [loc EXCEPT ![p] = [Idle EXCEPT !.op = "update_spec", !.ids = fw_ids,
                                               !.ctx = path, !.mongo = mongo,
                                               !.arg = nops + 1, !.out = "updated"]]
  /\ UNCHANGED <<workflows, next_fw_id, issued, now, cfg, gridfs_fallback, pc>>
  /\ Began

\* ------------------------------------------------------------- set_priority
\* the priorities the callers set
PriorityArgs == {1, 20}

\* set_priority(fw_id, priority, launch_idx=-1), line 1002:
\* find_one_and_update({"fw_id": fw_id}, {'$set': {'spec._priority': priority}});
\* launch_idx is not used, the filter has no sort: any one document of fw_id
SetPriority(p, fw_id, priority) ==
  /\ pc[p] = "idle"
  /\ IF DocsOf(fw_id) = {}
     THEN fireworks' = fireworks
     ELSE \E i \in DocsOf(fw_id) :
            fireworks' = [fireworks EXCEPT ![i] = SetPath(@, "spec._priority", priority)]
  /\ loc' = [loc EXCEPT ![p] = [Idle EXCEPT !.op = "set_priority", !.fw = fw_id,
                                            !.arg = priority, !.out = "updated"]]
  /\ UNCHANGED <<workflows, next_fw_id, issued, now, cfg, gridfs_fallback, pc>>
  /\ Began

\* ------------------------------------------------------------ the id assigner
\* the fw_id_assigner collection holds no document
NoCounter == 0 - 1

\* the id a call receives when find_one_and_update returned the document
\* after the $inc
FirstIdAfter(prev, quantity) == prev + quantity

\* line 782: find_one_and_update returns the document as it was before the
\* $inc, and the call its next_fw_id
FirstId(prev, quantity) == prev

\* a range that also takes the id after the last one asked for
IdRangeInclusive(first, quantity) == first .. (first + quantity)

IdRange(first, quantity) == first .. (first + quantity - 1)

\* the history of the ids handed out
Count(c, S) == [i \in 1..(MaxId + 1) |-> IF i \in S /\ c[i] < 2 THEN c[i] + 1 ELSE c[i]]
NoIds == [i \in 1..(MaxId + 1) |-> 0]
Issue(S) == [ever |-> Count(issued.ever, S), since |-> Count(issued.since, S)]

Quantities == {1, 2}

\* get_new_fw_id(quantity), lines 781-785: one store call
GetNewFwId(p, quantity) ==
  /\ pc[p] = "idle"
  /\ pc' = pc
  /\ IF next_fw_id = NoCounter
     THEN /\ loc' = [loc EXCEPT ![p] = [Idle EXCEPT !.op = "new_id", !.arg = quantity,
                                                    !.out = "ValueError",
                                                    !.exc = "ValueError"]]
          /\ UNCHANGED <<next_fw_id, issued>>
     ELSE /\ next_fw_id + quantity <= MaxId
          /\ next_fw_id' = next_fw_id + quantity
          /\ LET got == IdRange(FirstId(next_fw_id, quantity), quantity) IN
               /\ issued' = Issue(got)
               /\ loc' = [loc EXCEPT ![p] = [Idle EXCEPT !.op = "new_id", !.arg = quantity,
                                                         !.out = "returned", !.ids = got]]
  /\ UNCHANGED <<fireworks, workflows, now, cfg, gridfs_fallback>>
  /\ Began

RestartArgs == {1, 4}

\* _restart_ids(next_fw_id), line 535: delete_many({})
StartRestart(p, v) ==
  /\ pc[p] = "idle"
  /\ next_fw_id' = NoCounter
  /\ pc' = [pc EXCEPT ![p] = "ri_replace"]
  /\ loc' = [loc EXCEPT ![p] = [Idle EXCEPT !.op = "restart", !.arg = v]]
  /\ UNCHANGED <<fireworks, workflows, issued, now, cfg, gridfs_fallback>>
  /\ Began

\* lines 536-537: find_one_and_replace({'_id': -1}, {'next_fw_id': v}, upsert=True)
RestartReplace(p) ==
  /\ pc[p] = "ri_replace"
  /\ next_fw_id' = loc[p].arg
  /\ issued' = [issued EXCEPT !.since = NoIds]
  /\ Finish(p, "restarted")
  /\ UNCHANGED <<fireworks, workflows, now, cfg, gridfs_fallback, nops>>

\* _reset, line 240: fireworks.delete_many({})
StartReset(p) ==
  /\ pc[p] = "idle"
  /\ fireworks' = <<>>
  /\ pc' = [pc EXCEPT ![p] = "rs_wfs"]
  /\ loc' = [loc EXCEPT ![p] = [Idle EXCEPT !.op = "reset", !.arg = 1]]
  /\ UNCHANGED <<workflows, next_fw_id, issued, now, cfg, gridfs_fallback>>
  /\ Began

\* line 241: workflows.delete_many({}).  The clients that reset run without a
\* GridFS collection, so lines 243-245 drop nothing.
ResetWorkflows(p) ==
  /\ pc[p] = "rs_wfs"
  /\ workflows' = <<>>
  /\ pc' = [pc EXCEPT ![p] = "rs_ids"]
  /\ UNCHANGED <<fireworks, next_fw_id, issued, now, cfg, gridfs_fallback, loc, nops>>

\* line 242: _restart_ids(1), its delete_many
ResetIds(p) ==
  /\ pc[p] = "rs_ids"
  /\ next_fw_id' = NoCounter
  /\ pc' = [pc EXCEPT ![p] = "ri_replace"]
  /\ UNCHANGED <<fireworks, workflows, issued, now, cfg, gridfs_fallback, loc, nops>>

\* ---------------------------------------------------------------- _upsert_fws
\* the fw_ids of the fireworks a caller passes: negative placeholders and ids
\* handed out earlier
UpsertIds == {0 - 2, 0 - 1, 1, 3}
UpsertArgs == {{0 - 1}, {0 - 2, 0 - 1}, {0 - 1, 1}, {3}, UpsertIds}

\* the in-memory firework of that id, in its first launch
NewFw(id) == FwDoc(id, 0, "READY", 5, now, now, FALSE)

\* line 801: fws.sort(key=lambda x: x.fw_id)
SortedFws(S) == LET ids == SortedSeq(S) IN [k \in 1..Len(ids) |-> NewFw(ids[k])]

\* old_new[old] = new (lines 811, 821): a dict assignment
Assign(old_new, old, new) == {e \in old_new : e[1] # old} \cup {<<old, new>>}

\* the firework keeps the fw_id it came with
NotRenumbered(fw, new_id) == fw

\* lines 812, 822: fw.fw_id = new_id
Renumbered(fw, new_id) == [fw EXCEPT !.fw_id = new_id]

\* _upsert_fws(fws, reassign_all), lines 799-803
StartUpsert(p, S, reassign_all) ==
  /\ pc[p] = "idle"
  /\ pc' = [pc EXCEPT ![p] = IF reassign_all THEN "ua_ids" ELSE "up_next"]
  /\ loc' = [loc EXCEPT ![p] = [Idle EXCEPT !.op = "upsert", !.fws = S,
                                            !.todo = SortedFws(S),
                                            !.reassign_all = reassign_all]]
  /\ UNCHANGED <<fireworks, workflows, next_fw_id, issued, now, cfg, gridfs_fallback>>
  /\ Began

\* return old_new (line 829), or the ValueError of get_new_fw_id
UpsertDone(p, out) ==
  /\ pc' = [pc EXCEPT ![p] = "idle"]
  /\ loc' = [loc EXCEPT ![p] = [Idle EXCEPT !.op = "upsert", !.out = out,
                                            !.exc = IF out \in Errors THEN out ELSE "none",
                                            !.fws = loc[p].fws,
                                            !.reassign_all = loc[p].reassign_all,
                                            !.old_new = loc[p].old_new,
                                            !.ids = loc[p].ids]]

\* lines 819-822: a firework with a negative fw_id gets a new one
UpsertNewId(p) ==
  /\ pc[p] = "up_next"
  /\ Head(loc[p].todo).fw_id < 0
  /\ IF next_fw_id = NoCounter
     THEN UpsertDone(p, "ValueError") /\ UNCHANGED <<next_fw_id, issued>>
     ELSE LET new_id == FirstId(next_fw_id, 1) IN
          /\ next_fw_id + 1 <= MaxId
          /\ next_fw_id' = next_fw_id + 1
          /\ issued' = Issue({new_id})
          /\ pc' = [pc EXCEPT ![p] = "up_replace"]
          /\ loc' = [loc EXCEPT ![p].old_new = Assign(@, Head(loc[p].todo).fw_id, new_id),
                                ![p].todo[1] = Renumbered(@, new_id),
                                ![p].ids = @ \cup {new_id}]
  /\ UNCHANGED <<fireworks, workflows, now, cfg, gridfs_fallback, nops>>

\* lines 824-827: find_one_and_replace on (fw_id, launch_idx), upsert=True,
\* then the next firework of the loop
UpsertReplace(p) ==
  /\ \/ pc[p] = "up_replace"
     \/ pc[p] = "up_next" /\ Head(loc[p].todo).fw_id >= 0
  /\ fireworks' \in Upsert(fireworks, Head(loc[p].todo))
  /\ Len(fireworks') <= MaxDocs
  /\ IF Tail(loc[p].todo) = <<>>
     THEN UpsertDone(p, "upserted")
     ELSE /\ pc' = [pc EXCEPT ![p] = "up_next"]
          /\ loc' = [loc EXCEPT ![p].todo = Tail(@)]
  /\ UNCHANGED <<workflows, next_fw_id, issued, now, cfg, gridfs_fallback, nops>>

\* lines 803-813, reassign_all: one call of get_new_fw_id for all the
\* fireworks, which take the ids of the range in their order
UpsertAllIds(p) ==
  /\ pc[p] = "ua_ids"
  /\ IF next_fw_id = NoCounter
     THEN UpsertDone(p, "ValueError") /\ UNCHANGED <<next_fw_id, issued>>
     ELSE LET n == Len(loc[p].todo)
              first_new_id == FirstId(next_fw_id, n)
          IN
          /\ next_fw_id + n <= MaxId
          /\ next_fw_id' = next_fw_id + n
          /\ issued' = Issue(IdRange(first_new_id, n))
          /\ pc' = [pc EXCEPT ![p] = "ua_delete"]
          /\ loc' = [loc EXCEPT
                       ![p].old_new = {<<loc[p].todo[k].fw_id, first_new_id + k - 1>> : k \in 1..n},
                       ![p].todo = [k \in 1..n |->
                                      Renumbered(loc[p].todo[k], first_new_id + k - 1)],
                       ![p].ids = IdRange(first_new_id, n)]
  /\ UNCHANGED <<fireworks, workflows, now, cfg, gridfs_fallback, nops>>

\* line 815: delete_many({'fw_id': {'$in': used_ids}})
UpsertAllDelete(p) ==
  /\ pc[p] = "ua_delete"
  /\ LET keep(d) == d.fw_id \notin loc[p].ids IN fireworks' = SelectSeq(fireworks, keep)
  /\ pc' = [pc EXCEPT ![p] = "ua_insert"]
  /\ UNCHANGED <<workflows, next_fw_id, issued, now, cfg, gridfs_fallback, loc, nops>>

\* line 816: insert_many
UpsertAllInsert(p) ==
  /\ pc[p] = "ua_insert"
  /\ fireworks' = fireworks \o loc[p].todo
  /\ Len(fireworks') <= MaxDocs
  /\ UpsertDone(p, "upserted")
  /\ UNCHANGED <<workflows, next_fw_id, issued, now, cfg, gridfs_fallback, nops>>

\* ------------------------------------------------------------ initial stores
FwIds == {1, 2, 3}

\* a chain 1 -> 2 -> 3 in one workflow, before its first launch (scenario 1 of
\* section 8) and with its first two fireworks launched
ChainWf(st, agg) ==
  <<WfDoc({1, 2, 3}, (1 :> {2}) @@ (2 :> {3}) @@ (3 :> {}), st, agg)>>

ChainNew == ChainWf((1 :> "READY") @@ (2 :> "WAITING") @@ (3 :> "WAITING"), "READY")
ChainRun == ChainWf((1 :> "COMPLETED") @@ (2 :> "RUNNING") @@ (3 :> "WAITING"), "RUNNING")

\* a workflow 1 -> 2, whose firework 1 has completed, and a workflow of the
\* single firework 3
PairWfs ==
  <<WfDoc({1, 2}, (1 :> {2}) @@ (2 :> {}), (1 :> "COMPLETED") @@ (2 :> "WAITING"), "RUNNING"),
    WfDoc({3}, (3 :> {}), (3 :> "READY"), "READY")>>

\* three workflows of one firework each
SingleWfs ==
  [n \in 1..3 |-> WfDoc({n}, (n :> {}), (n :> "READY"), "READY")]

\* three workflows of one firework each, out with the workers
RunningWfs ==
  [n \in 1..3 |-> LET st == (n :> IF n = 1 THEN "RESERVED" ELSE "RUNNING") IN
                  WfDoc({n}, (n :> {}), st, Aggregate(st))]

\* the same, the third left locked by a holder that crashed (section 4.2)
SingleWfsLocked == [SingleWfs EXCEPT ![3].locked = TRUE]

\* one document per firework, launch 0, in the state its workflow caches; a
\* firework of `again` has fizzled once and been rerun: launch 0 is FIZZLED and
\* launch 1 carries the cached state
InitialFws(wfs, prio, dupes, again) ==
  LET st(n) == LET w == CHOOSE w \in DOMAIN wfs : n \in wfs[w].nodes IN wfs[w].fw_states[n]
      first(n) == FwDoc(n, 0, IF n \in again THEN "FIZZLED" ELSE st(n),
                        prio[n], n - 1, n - 1, n \in dupes)
      second(n) == FwDoc(n, 1, st(n), prio[n], n - 1, n - 1, n \in dupes)
      rerun == SortedSeq(again)
  IN [n \in 1..3 |-> first(n)] \o [k \in 1..Len(rerun) |-> second(rerun[k])]

Config(sorts, kills, selfs, faults, counts) ==
  [sort_fws : sorts, kill : kills, query_self : selfs, faulty : faults, count : counts]

InitWith(stores, prios, dupes, reruns, config) ==
  /\ \E wfs \in stores, prio \in prios, d \in dupes, again \in reruns :
       /\ workflows = wfs
       /\ fireworks = InitialFws(wfs, prio, d, again)
  /\ next_fw_id = 4
  /\ issued = [ever |-> NoIds, since |-> NoIds]
  /\ gridfs_fallback = NoGridFS
  /\ now = 2
  /\ cfg \in config
  /\ pc = [p \in Procs |-> "idle"]
  /\ loc = [p \in Procs |-> Idle]
  /\ nops = 0

\* the priorities [5, 10, 10] of scenario 2
Prio5_10_10 == (1 :> 5) @@ (2 :> 10) @@ (3 :> 10)

\* ------------------------------------------------------------- one client
Init ==
  InitWith({ChainNew, ChainRun, SingleWfsLocked}, {Prio5_10_10}, {{}, {2, 3}}, {{}},
           Config({"FIFO"}, {FALSE}, {FALSE}, {TRUE}, {TRUE}))

\* the steps of _refresh_wf, with the WFLock it takes
RefreshSteps(p) ==
  \/ WFLockEnter(p)
  \/ WFLockWait(p)
  \/ WFLockExit(p)
  \/ RefreshRead(p)
  \/ RefreshUpsert(p)
  \/ RefreshReplace(p)
  \/ RefreshFizzleFw(p)
  \/ RefreshFizzleWf(p)
  \/ RefreshFizzleStates(p)

Step(p) ==
  \/ \E fw \in FwIds, st \in RefreshStateArgs : StartRefresh(p, fw, st, States)
  \/ RefreshSteps(p)
  \/ \E q \in QueryArgs, fw \in FwIds \cup {0}, co \in BOOLEAN : StartReserve(p, q, fw, co)
  \/ GetFwFind(p)
  \/ GetFwLoad(p)
  \/ GetFwSteal(p)
  \/ GetFwUpsert(p)
  \/ GetFwRefresh(p)
  \/ \E fw \in FwIds : StartCancel(p, fw)
  \/ CancelReplace(p)
  \/ \E fw \in FwIds : StartRerun(p, fw)
  \/ RerunFw(p)
  \/ RerunRefresh(p)
  \/ \E i \in 1..MaxDocs, st \in States : StartCheckin(p, i, ActionDict(1), st, 1)
  \/ CheckinWrite(p)
  \/ CheckinDuplicates(p)
  \/ CheckinRefresh(p)
  \/ CheckinNext(p)

Next == Tick \/ Step(1)

Spec == Init /\ [][Next]_vars

\* ------------------------------------------- two clients and the WFLock
InitLock ==
  InitWith({PairWfs}, {Prio5_10_10}, {{}}, {{}},
           Config({"FIFO"}, BOOLEAN, {FALSE}, {TRUE}, {FALSE}))

StepLock(p) ==
  \/ \E fw \in FwIds : StartLock(p, fw)
  \/ LockBody(p)
  \/ \E fw \in FwIds : StartRefresh(p, fw, "None", States)
  \/ RefreshSteps(p)

NextLock == \E p \in Procs : StepLock(p)

SpecLock == InitLock /\ [][NextLock]_vars

\* ------------------------------------------- two clients of the dispatcher
\* three single fireworks of priorities 5, 10, 10, the last two with or
\* without a _dupefinder, the third in its first or its second launch; the
\* refresh of such a workflow promotes nothing and
\* no internal failure is injected
InitReserve ==
  InitWith({SingleWfs}, {Prio5_10_10}, {{}, {2, 3}}, {{}, {3}},
           Config({"FIFO", "FILO"}, {FALSE}, {FALSE}, {FALSE}, {TRUE}))

ReserveFwIds == {0, 2}

StepReserve(p) ==
  \/ \E fw \in ReserveFwIds, co \in BOOLEAN : StartReserve(p, Priorities, fw, co)
  \/ GetFwFind(p)
  \/ GetFwLoad(p)
  \/ GetFwSteal(p)
  \/ GetFwUpsert(p)
  \/ GetFwRefresh(p)
  \/ WFLockEnter(p)
  \/ WFLockWait(p)
  \/ WFLockExit(p)
  \/ RefreshRead(p)
  \/ RefreshReplace(p)

NextReserve == \E p \in Procs : StepReserve(p)

SpecReserve == InitReserve /\ [][NextReserve]_vars

\* --------------------------------- two lock clients and a crashed holder
\* workflow 3 is locked by a holder that will never release; a client that
\* has started __enter__ keeps running its loop (time.sleep returns), while
\* nothing obliges a holder to leave its with-body
InitLive ==
  InitWith({SingleWfsLocked}, {Prio5_10_10}, {{}}, {{}},
           Config({"FIFO"}, BOOLEAN, {FALSE}, {FALSE}, {FALSE}))

StepLive(p) ==
  \/ \E fw \in FwIds : StartLock(p, fw)
  \/ WFLockEnter(p)
  \/ WFLockWait(p)
  \/ LockBody(p)
  \/ WFLockExit(p)

NextLive == \E p \in Procs : StepLive(p)

SpecLive ==
  /\ InitLive /\ [][NextLive]_vars
  /\ \A p \in Procs : WF_vars(WFLockEnter(p) \/ WFLockWait(p))

\* ----------------------------- one client of the dispatcher that keeps running
\* three READY single fireworks, the last two with or without a _dupefinder;
\* a call that has started keeps taking its steps (no store call blocks)
InitLoop ==
  InitWith({SingleWfs}, {Prio5_10_10}, {{}, {2, 3}}, {{}},
           Config({"FIFO"}, {FALSE}, {FALSE}, {FALSE}, {FALSE}))

StepLoop(p) ==
  \/ \E q \in QueryArgs, fw \in FwIds \cup {0}, co \in BOOLEAN : StartReserve(p, q, fw, co)
  \/ GetFwFind(p)
  \/ GetFwLoad(p)
  \/ GetFwSteal(p)
  \/ GetFwUpsert(p)
  \/ GetFwRefresh(p)
  \/ WFLockEnter(p)
  \/ WFLockExit(p)
  \/ RefreshRead(p)
  \/ RefreshReplace(p)

NextLoop == Tick \/ StepLoop(1)

SpecLoop == InitLoop /\ [][NextLoop]_vars /\ WF_vars(StepLoop(1))

\* ------------------------------- two clients, the dispatcher and the readers
InitLookup ==
  InitWith({SingleWfs, ChainRun}, {Prio5_10_10}, {{}}, {{}},
           Config({"FIFO"}, {FALSE}, {FALSE}, {FALSE}, {TRUE}))

StepLookup(p) ==
  \/ \E fw \in LookupArgs : GetFwById(p, fw)
  \/ \E fw \in LookupArgs : GetWfByFwId(p, fw)
  \/ StartReserve(p, Priorities, 0, TRUE)
  \/ GetFwFind(p)
  \/ GetFwLoad(p)
  \/ GetFwSteal(p)

NextLookup == \E p \in Procs : StepLookup(p)

SpecLookup == InitLookup /\ [][NextLookup]_vars

\* ----------------------------------- two clients, recovery and the dispatcher
\* three single fireworks, firework 1 in its first or its second launch; the
\* launches of fireworks 1 and 2 have run in a directory and left a
\* checkpoint in their last state_history entry, and the fireworks of
\* stale carry a spec._recovery of an earlier recovery
WithCheckpoint(fws, stale) ==
  [i \in DOMAIN fws |->
     LET d == fws[i]
         h == d.state_history
         e == IF d.fw_id \in {1, 2}
              THEN [d EXCEPT !.state_history =
                               [h EXCEPT ![Len(h)] = ("checkpoint" :> d.fw_id) @@ @]]
              ELSE d
         l == Set(e, "launch_dir", 10 * d.fw_id + d.launch_idx)
     IN IF d.fw_id \in stale
        THEN Set(l, "_recovery", [checkpoint |-> 0, _prev_dir |-> 0,
                                  _launch_id |-> 0, _mode |-> "cp"])
        ELSE l]

InitRecover ==
  /\ \E again \in {{}, {1}}, stale \in {{}, {1, 2}} :
       /\ workflows = SingleWfs
       /\ fireworks = WithCheckpoint(InitialFws(SingleWfs, Prio5_10_10, {}, again), stale)
  /\ next_fw_id = 4
  /\ issued = [ever |-> NoIds, since |-> NoIds]
  /\ gridfs_fallback = NoGridFS
  /\ now = 2
  /\ cfg \in Config({"FIFO"}, {FALSE}, {FALSE}, {FALSE}, {TRUE})
  /\ pc = [p \in Procs |-> "idle"]
  /\ loc = [p \in Procs |-> Idle]
  /\ nops = 0

StepRecover(p) ==
  \/ \E fw \in LookupArgs, mode \in RecoverArgs : StartRecover(p, fw, mode)
  \/ RecoverUpdate(p)
  \/ StartReserve(p, Priorities, 0, TRUE)
  \/ GetFwFind(p)
  \/ GetFwLoad(p)
  \/ GetFwSteal(p)

NextRecover == \E p \in Procs : StepRecover(p)

SpecRecover == InitRecover /\ [][NextRecover]_vars

\* ------------------------------------------------- a worker running ForeachTask
InitForeach ==
  InitWith({SingleWfs}, {Prio5_10_10}, {{}}, {{}},
           Config({"FIFO"}, {FALSE}, {FALSE}, {FALSE}, {FALSE}))

NextForeach ==
  \E split_field \in SplitLists, n \in ChunkArgs : ForeachTask(1, split_field, n)

SpecForeach == InitForeach /\ [][NextForeach]_vars

\* ------------------------------ two clients, the dispatcher and get_fw_ids
InitQuery ==
  InitWith({SingleWfs, ChainRun}, {Prio5_10_10}, {{}}, {{}},
           Config({"FIFO"}, {FALSE}, {FALSE}, {FALSE}, {TRUE}))

StepQuery(p) ==
  \/ \E criteria \in CriteriaArgs, limit \in LimitArgs, count_only \in BOOLEAN :
       GetFwIds(p, criteria, limit, count_only)
  \/ StartReserve(p, Priorities, 0, TRUE)
  \/ GetFwFind(p)
  \/ GetFwLoad(p)
  \/ GetFwSteal(p)

NextQuery == \E p \in Procs : StepQuery(p)

SpecQuery == InitQuery /\ [][NextQuery]_vars

\* ----------------------- one client of the dispatcher, any dupefinder query
\* firework 2 alone, or fireworks 2 and 3, carry a _dupefinder, whose query
\* matches the documents of the dispatched firework itself or leaves them out
InitSelf ==
  InitWith({SingleWfs}, {Prio5_10_10}, {{2}, {2, 3}}, {{}},
           Config({"FIFO"}, {FALSE}, BOOLEAN, {FALSE}, {FALSE}))

SpecSelf == InitSelf /\ [][NextLoop]_vars

\* ------------------------------ two clients, the dispatcher and update_spec
\* the third firework in its first or its second launch
InitUpdate ==
  InitWith({SingleWfs, ChainRun, RunningWfs}, {Prio5_10_10}, {{}}, {{}, {3}},
           Config({"FIFO"}, {FALSE}, {FALSE}, {FALSE}, {TRUE}))

StepUpdate(p) ==
  \/ \E fw_ids \in FwIdsArgs, doc \in SpecDocuments : UpdateSpec(p, fw_ids, doc, FALSE)
  \/ \E fw_ids \in FwIdsArgs, doc \in MongoDocuments : UpdateSpec(p, fw_ids, doc, TRUE)
  \/ StartReserve(p, Priorities, 0, TRUE)
  \/ GetFwFind(p)
  \/ GetFwLoad(p)
  \/ GetFwSteal(p)

NextUpdate == \E p \in Procs : StepUpdate(p)

SpecUpdate == InitUpdate /\ [][NextUpdate]_vars

\* --------------------------- one client, the operations addressed by fw_id
\* firework 3 in its first or in its second launch
InitPriority ==
  InitWith({SingleWfs, ChainRun, PairWfs}, {Prio5_10_10}, {{}}, {{}, {3}},
           Config({"FIFO"}, {FALSE}, {FALSE}, {FALSE}, {TRUE}))

StepPriority(p) ==
  \/ \E fw \in LookupArgs, prio \in PriorityArgs : SetPriority(p, fw, prio)
  \/ \E fw \in LookupArgs : GetFwById(p, fw)
  \/ \E fw \in FwIds, st \in RefreshStateArgs : StartRefresh(p, fw, st, States)
  \/ WFLockEnter(p)
  \/ RefreshRead(p)
  \/ RefreshUpsert(p)
  \/ RefreshReplace(p)
  \/ WFLockExit(p)

NextPriority == StepPriority(1)

SpecPriority == InitPriority /\ [][NextPriority]_vars

\* ------------------------------------ one client, the janitor and the clock
InitJanitor ==
  /\ \E wfs \in {SingleWfs, RunningWfs} :
       /\ workflows = wfs
       /\ fireworks = InitialFws(wfs, Prio5_10_10, {}, {})
  /\ next_fw_id = 4
  /\ issued = [ever |-> NoIds, since |-> NoIds]
  /\ gridfs_fallback = NoGridFS
  /\ now = 0
  /\ cfg \in Config({"FIFO"}, {FALSE}, {FALSE}, {FALSE}, {FALSE})
  /\ pc = [p \in Procs |-> "idle"]
  /\ loc = [p \in Procs |-> Idle]
  /\ nops = 0

StepJanitor(p) ==
  \/ StartReserve(p, Priorities, 0, TRUE)
  \/ GetFwFind(p)
  \/ GetFwLoad(p)
  \/ GetFwSteal(p)
  \/ CancelReplace(p)
  \/ RerunFw(p)
  \/ RerunRefresh(p)
  \/ WFLockEnter(p)
  \/ WFLockExit(p)
  \/ RefreshRead(p)
  \/ RefreshReplace(p)
  \/ \E secs \in ExpirationArgs, rerun \in BOOLEAN : StartDetect(p, secs, rerun)
  \/ DetectCancel(p)
  \/ DetectNext(p)

NextJanitor == Tick \/ StepJanitor(1)

SpecJanitor == InitJanitor /\ [][NextJanitor]_vars

\* ------------------------- one client of the linear chain 1 -> 2 -> 3
InitChain ==
  InitWith({ChainNew}, {Prio5_10_10}, {{}}, {{}},
           Config({"FIFO"}, {FALSE}, {FALSE}, {FALSE}, {FALSE}))

StepChain(p) ==
  \/ StartReserve(p, Priorities, 0, TRUE)
  \/ GetFwFind(p)
  \/ GetFwLoad(p)
  \/ GetFwSteal(p)
  \/ \E i \in 1..MaxDocs, st \in States : StartCheckin(p, i, ActionDict(0), st, 1)
  \/ CheckinWrite(p)
  \/ CheckinDuplicates(p)
  \/ \E fw \in FwIds : StartRefresh(p, fw, "None", States)
  \/ WFLockEnter(p)
  \/ WFLockExit(p)
  \/ RefreshRead(p)
  \/ RefreshReplace(p)

NextChain == Tick \/ StepChain(1)

SpecChain == InitChain /\ [][NextChain]_vars

\* ------------------------------- one client that checks in and reads back
\* the first firework of d has stolen the launches of the others: its document
\* carries their ids (line 985, stored by line 556), theirs were written by
\* _update_fw, which stores no duplicates (lines 769-771)
Linked(fws, d) ==
  [i \in DOMAIN fws |->
     IF fws[i].fw_id \in d /\ \A id \in d : fws[i].fw_id <= id
     THEN [fws[i] EXCEPT !.duplicates = d \ {fws[i].fw_id}]
     ELSE fws[i]]

InitCheckin ==
  /\ \E wfs \in {ChainRun, RunningWfs}, d \in {{}, {2, 3}} :
       /\ workflows = wfs
       /\ fireworks = Linked(InitialFws(wfs, Prio5_10_10, d, {}), d)
  /\ next_fw_id = 4
  /\ issued = [ever |-> NoIds, since |-> NoIds]
  /\ gridfs_fallback \in {NoGridFS, GridFS}
  /\ now = 2
  /\ cfg \in Config({"FIFO"}, {FALSE}, {FALSE}, {FALSE}, {TRUE})
  /\ pc = [p \in Procs |-> "idle"]
  /\ loc = [p \in Procs |-> Idle]
  /\ nops = 0

StepCheckin(p) ==
  \/ \E i \in 1..MaxDocs, n \in ActionSizes, st \in States, size \in SpecSizes :
       StartCheckin(p, i, ActionDict(n), st, size)
  \/ CheckinWrite(p)
  \/ CheckinPut(p)
  \/ CheckinRetry(p)
  \/ CheckinDuplicates(p)
  \/ CheckinRefresh(p)
  \/ CheckinNext(p)
  \/ WFLockEnter(p)
  \/ WFLockExit(p)
  \/ RefreshRead(p)
  \/ RefreshUpsert(p)
  \/ RefreshReplace(p)
  \/ \E fw \in FwIds : GetFwById(p, fw)

NextCheckin == StepCheckin(1)

SpecCheckin == InitCheckin /\ [][NextCheckin]_vars

\* --------------------------------------- two clients that allocate ids
InitIds ==
  InitWith({SingleWfs}, {Prio5_10_10}, {{}}, {{}},
           Config({"FIFO"}, {FALSE}, {FALSE}, {FALSE}, {FALSE}))

StepIds(p) ==
  \/ \E n \in Quantities : GetNewFwId(p, n)
  \/ \E S \in UpsertArgs, ra \in BOOLEAN : StartUpsert(p, S, ra)
  \/ UpsertNewId(p)
  \/ UpsertReplace(p)
  \/ UpsertAllIds(p)
  \/ UpsertAllDelete(p)
  \/ UpsertAllInsert(p)

NextIds == \E p \in Procs : StepIds(p)

SpecIds == InitIds /\ [][NextIds]_vars

\* ------------------------------------ two clients, the counter restarted
InitRestart ==
  InitWith({SingleWfs}, {Prio5_10_10}, {{}}, {{}},
           Config({"FIFO"}, {FALSE}, {FALSE}, {FALSE}, {FALSE}))

StepRestart(p) ==
  \/ \E n \in Quantities : GetNewFwId(p, n)
  \/ \E v \in RestartArgs : StartRestart(p, v)
  \/ RestartReplace(p)
  \/ StartReset(p)
  \/ ResetWorkflows(p)
  \/ ResetIds(p)

NextRestart == \E p \in Procs : StepRestart(p)

SpecRestart == InitRestart /\ [][NextRestart]_vars

\* ------------------------------------------------------------------ claims
\* the process whose step this is
Acting(p) == pc'[p] # pc[p] \/ loc'[p] # loc[p]

\* the processes inside the critical section of workflow w
Holders(w) == {p \in Procs : InCS(p) /\ w \in WfOf(loc[p].fw)}

\* C1: with kill = false everywhere, at most one process at a time is inside
\* the WFLock critical section of a workflow, whichever node each uses as key
C1_MutualExclusion ==
  ~cfg.kill => \A w \in DOMAIN workflows : Cardinality(Holders(w)) <= 1

\* one process holds the lock taken through node 1 while another has retried
\* on node 2 of the same workflow
C1_Witness ==
  /\ ~cfg.kill
  /\ \E p, q \in Procs :
       /\ InCS(p) /\ loc[p].fw = 1
       /\ pc[q] = "wait" /\ loc[q].fw = 2 /\ loc[q].ctr >= 1

\* the fields of the fireworks and of the workflows that _refresh_wf writes
FwFields(d) == <<d.state, d.updated_on>>
WfFields(w) == <<w.state, w.fw_states, w.links>>

StoreFields ==
  <<[i \in DOMAIN fireworks |-> FwFields(fireworks[i])],
    [w \in DOMAIN workflows |-> WfFields(workflows[w])]>>

\* process p is executing _refresh_wf in this step
InRefresh(p) ==
  \/ loc[p].ctx = "refresh"
  \/ loc'[p].ctx = "refresh"

\* C2: every write of _refresh_wf to a firework's state or updated_on, or to a
\* workflow's state, fw_states or links, is made while the caller holds the
\* workflow's WFLock
C2_WritesUnderLock ==
  [][\A p \in Procs :
       (Acting(p) /\ InRefresh(p) /\ StoreFields' # StoreFields) => InCS(p)]_vars

\* C10: a kill = false attempt on a workflow that is locked keeps waiting
\* while its waiting time is within expire_secs, and once the time exceeds it
\* the attempt ends in LockedWorkflowError, outside the critical section, with
\* the workflows collection unchanged
C10_Step(p) ==
  (/\ pc[p] = "wait" /\ Acting(p) /\ ~cfg.kill
   /\ \A w \in WfOf(loc[p].fw) : workflows[w].locked)
  => /\ workflows' = workflows
     /\ ~loc'[p].has
     /\ \/ /\ pc'[p] = "wait"
           /\ loc'[p].waited <= expire_secs
           /\ loc'[p].waited > loc[p].waited
        \/ /\ pc'[p] # "wait"
           /\ loc'[p].out = "LockedWorkflowError"
           /\ \E j \in Jitter : loc[p].waited + 100 * (loc[p].ctr + 1) + j > expire_secs

C10_LockedWorkflowError == [][\A p \in Procs : C10_Step(p)]_vars

\* a plain lock client has failed with LockedWorkflowError while the other
\* process was inside the critical section
C10_Witness ==
  /\ ~cfg.kill
  /\ \E p, q \in Procs :
       /\ loc[p].op = "lock" /\ loc[p].out = "LockedWorkflowError" /\ pc[p] = "idle"
       /\ InCS(q)

\* process p has returned from reserve_ready(checkout = true) with a firework
Received(p) ==
  /\ pc[p] = "idle" /\ loc[p].op = "reserve" /\ loc[p].out = "returned"
  /\ loc[p].checkout

\* C3 as stated: two callers with checkout = true and identical arguments, an
\* identical fw_id included, never receive the same firework
C3_DisjointIdenticalArgs ==
  \A p, q \in Procs :
    (/\ p # q /\ Received(p) /\ Received(q)
     /\ loc[p].arg = loc[q].arg /\ loc[p].query = loc[q].query)
    => loc[p].m_fw.fw_id # loc[q].m_fw.fw_id

\* C3: two callers with checkout = true and no fw_id never receive the same
\* firework
C3_DisjointNoFwId ==
  \A p, q \in Procs :
    (/\ p # q /\ Received(p) /\ Received(q)
     /\ loc[p].arg = 0 /\ loc[q].arg = 0)
    => loc[p].m_fw.fw_id # loc[q].m_fw.fw_id

\* both callers have returned from overlapping calls without fw_id, each with
\* a firework
C3_Witness ==
  \E p, q \in Procs :
    /\ p # q /\ Received(p) /\ Received(q)
    /\ loc[p].arg = 0 /\ loc[q].arg = 0
    /\ loc[p].query = loc[q].query
    /\ loc[p].m_fw.fw_id # loc[q].m_fw.fw_id
    /\ loc[p].m_fw.state = "RESERVED" /\ loc[q].m_fw.state = "RESERVED"

\* C4: the firework a successful reserve_ready returns is RESERVED and its
\* updated_on is not before the start of the call
C4_ReturnedReserved ==
  \A p \in Procs :
    Received(p) => /\ loc[p].m_fw.state = "RESERVED"
                   /\ loc[p].m_fw.updated_on >= loc[p].t0

\* the READY documents a call without fw_id selects among
ReadyFor(p) ==
  {fireworks[i] : i \in {j \in DOMAIN fireworks :
                           /\ fireworks[j].state = "READY"
                           /\ fireworks[j].priority \in loc[p].query}}

\* the store call of the dispatcher that selects a document for p
Selects(p) == pc[p] = "gf_find" /\ pc'[p] = "gf_load" /\ loc[p].arg = 0

C5_Maximal(p) ==
  Selects(p) =>
    LET f == loc'[p].found IN
    /\ f \in ReadyFor(p)
    /\ \A d \in ReadyFor(p) :
         /\ d.priority <= f.priority
         /\ d.priority = f.priority => d.launch_idx <= f.launch_idx
         /\ (d.priority = f.priority /\ d.launch_idx = f.launch_idx) =>
              /\ cfg.sort_fws = "FIFO" => f.created_on <= d.created_on
              /\ cfg.sort_fws = "FILO" => f.created_on >= d.created_on

\* process p has returned from the first call on the store of the scenario:
\* priorities 5, 10, 10, created at t, t+1, t+2, all READY, FIFO
ScenarioReturn(p) ==
  /\ pc[p] = "idle" /\ loc[p].op = "reserve" /\ loc[p].out = "returned"
  /\ loc[p].arg = 0 /\ loc[p].query = Priorities
  /\ nops = 1 /\ cfg.sort_fws = "FIFO"
  /\ Len(fireworks) = 3
  /\ \A i \in DOMAIN fireworks : ~fireworks[i].dupefinder

\* C5: the document selected for a call without fw_id has the highest
\* spec._priority among the READY documents of the query, then the highest
\* launch_idx, then the earliest created_on under FIFO and the latest under
\* FILO; the firework returned is the one selected; the scenario returns the
\* firework of priority 10 created at t+1
C5_SortOrder ==
  /\ [][\A p \in Procs : C5_Maximal(p)]_vars
  /\ [](\A p \in Procs :
          /\ (pc[p] = "idle" /\ loc[p].op = "reserve" /\ loc[p].out = "returned")
               => loc[p].m_fw.fw_id = loc[p].found.fw_id
          /\ ScenarioReturn(p) =>
               /\ loc[p].m_fw.fw_id = 2
               /\ loc[p].m_fw.priority = 10
               /\ loc[p].m_fw.created_on = 1)

\* the scenario has returned its firework
C5_Witness == \E p \in Procs : ScenarioReturn(p) /\ loc[p].checkout

C7_UniqueLaunch ==
  \A i, j \in DOMAIN fireworks :
    (/\ fireworks[i].fw_id = fireworks[j].fw_id
     /\ fireworks[i].launch_idx = fireworks[j].launch_idx) => i = j

\* C8: when no operation is in progress, every workflow caches for each of
\* its nodes the state of the node's document of highest launch_idx
C8_FwStatesCurrent ==
  (\A p \in Procs : pc[p] = "idle") =>
    \A w \in DOMAIN workflows : \A n \in workflows[w].nodes :
      \A i \in LatestOf(n) : workflows[w].fw_states[n] = fireworks[i].state

\* C9: no step of _refresh_wf, of its error path, of cancel_reservation or of
\* the dispatcher changes the state of a COMPLETED or FIZZLED document in place
C9_TerminalKept ==
  [][\A p \in Procs :
       (Acting(p) /\ loc'[p].op \in {"refresh", "cancel", "reserve"}) =>
         \A i \in DOMAIN fireworks :
           (/\ fireworks[i].state \in Terminal
            /\ fireworks'[i].fw_id = fireworks[i].fw_id
            /\ fireworks'[i].launch_idx = fireworks[i].launch_idx)
           => fireworks'[i].state = fireworks[i].state]_vars

\* the step in which the _refresh_wf call of p gives up on a workflow that
\* another process holds
RefreshGivesUp(p) ==
  /\ pc[p] = "wait" /\ pc'[p] # "wait" /\ loc[p].ctx = "refresh"
  /\ ~cfg.kill /\ ~loc'[p].has
  /\ \E q \in Procs \ {p} : InCS(q) /\ WfOf(loc[q].fw) = WfOf(loc[p].fw)

\* C11: a _refresh_wf call with kill = false on a workflow another process
\* holds ends with LockedWorkflowError raised to its caller, having changed
\* neither a firework (loc[p].f: line 892 found and updated a document) nor
\* the workflow
C11_RefreshRaisesUnchanged ==
  [][\A p \in Procs :
       RefreshGivesUp(p) => /\ loc'[p].exc = "LockedWorkflowError"
                            /\ ~loc[p].f
                            /\ workflows' = workflows]_vars

\* process p is in __enter__
Acquiring(p) == pc[p] \in {"enter", "wait"}

\* C12: with kill = true an acquire attempt on an existing workflow ends
\* inside the critical section, whether or not the holder ever releases;
\* every attempt, kill true or false, leaves __enter__; and the retries are
\* bounded: a process still waiting after ctr retries has slept at least
\* 100 * (1 + ... + ctr) ms, which is within expire_secs
C12_AcquireTerminates ==
  /\ \A p \in Procs : (cfg.kill /\ Acquiring(p)) ~> InCS(p)
  /\ \A p \in Procs : Acquiring(p) ~> ~Acquiring(p)
  /\ [](\A p \in Procs : pc[p] = "wait" => 50 * loc[p].ctr * (loc[p].ctr + 1) <= expire_secs)

\* with kill = true a process is inside the critical section of workflow 3
\* together with a process that was already inside: the lock was taken by force
C12_Witness ==
  /\ cfg.kill
  /\ \E p, q \in Procs : p # q /\ InCS(p) /\ InCS(q) /\ loc[p].fw = 3 /\ loc[q].fw = 3

\* C13: a workflow document has `locked` exactly when some process is inside
\* the critical section of that workflow
C13_LockedIffHeld ==
  \A w \in DOMAIN workflows : workflows[w].locked <=> Holders(w) # {}

\* C15 as stated: no id is handed out more than once, restarts and resets
\* of the counter included
C15_NeverReused == \A i \in DOMAIN issued.ever : issued.ever[i] <= 1

\* C15: no id is handed out more than once between two restarts of the
\* counter, and the counter goes down only in a step of _restart_ids
C15_NotReusedSinceRestart ==
  /\ [](\A i \in DOMAIN issued.since : issued.since[i] <= 1)
  /\ [][next_fw_id' < next_fw_id =>
          \E p \in Procs : Acting(p) /\ loc'[p].op \in {"restart", "reset"}]_vars

\* an id handed out before a restart has been handed out again after it
C15_Witness ==
  \E i \in DOMAIN issued.ever : issued.ever[i] = 2 /\ issued.since[i] = 1

\* C14: a call get_new_fw_id(n) returns, in one step, the value the counter
\* had before the call and leaves the counter n higher, and the ranges of ids
\* [prev, prev + n) that different clients hold never share an id.
Handed(p) == loc[p].op = "new_id" /\ loc[p].out = "returned"

C14_AtomicDisjointRanges ==
  /\ [][\A p \in Procs :
          (pc[p] = "idle" /\ loc'[p] # loc[p] /\ loc'[p].op = "new_id"
             /\ loc'[p].out = "returned")
          => /\ loc'[p].ids = next_fw_id .. (next_fw_id + loc'[p].arg - 1)
             /\ next_fw_id' = next_fw_id + loc'[p].arg]_vars
  /\ [](\A p, q \in Procs : p # q => loc[p].ids \cap loc[q].ids = {})

C14_Witness ==
  \E p, q \in Procs :
    /\ p # q /\ Handed(p) /\ Handed(q)
    /\ loc[p].arg = 2 /\ Cardinality(loc[p].ids) = 2
    /\ loc[q].ids # {}

\* C16: when _upsert_fws without reassign_all has returned, every firework
\* that came with a negative fw_id is stored under an id of its own taken
\* from the counter, the mapping returned has exactly one entry old -> new
\* for each of them, the fireworks that came with a non-negative fw_id are
\* stored under that id and took no id from the counter, and no stored
\* document has a negative fw_id.
Upserted(p) == loc[p].op = "upsert" /\ loc[p].out = "upserted" /\ ~loc[p].reassign_all

Stored(id) == \E i \in DOMAIN fireworks : fireworks[i].fw_id = id

C16_NegativeIdsReplaced ==
  /\ \A i \in DOMAIN fireworks : fireworks[i].fw_id >= 0
  /\ \A p \in Procs :
       Upserted(p) =>
         LET neg == {x \in loc[p].fws : x < 0} IN
         /\ {e[1] : e \in loc[p].old_new} = neg
         /\ Cardinality(loc[p].old_new) = Cardinality(neg)
         /\ {e[2] : e \in loc[p].old_new} = loc[p].ids
         /\ Cardinality(loc[p].ids) = Cardinality(neg)
         /\ \A id \in loc[p].ids : issued.ever[id] = 1 /\ id < next_fw_id /\ Stored(id)
         /\ \A id \in loc[p].fws \ neg : Stored(id)

C16_Witness ==
  \E p \in Procs : Upserted(p) /\ loc[p].fws = UpsertIds /\ Cardinality(loc[p].ids) = 2

\* C17: when checkin(firework, action, state) has succeeded, the stored
\* document of (fw_id, launch_idx) has the given state, its state_history ends
\* with the new entry of that state, and its action is the given action.
CheckedIn(p) == pc[p] = "idle" /\ loc[p].op = "checkin" /\ loc[p].out = "checked_in"

StoredOf(m_fw) ==
  {i \in DOMAIN fireworks : /\ fireworks[i].fw_id = m_fw.fw_id
                            /\ fireworks[i].launch_idx = m_fw.launch_idx}

C17_StoredAsGiven ==
  \A p \in Procs :
    CheckedIn(p) =>
      /\ StoredOf(loc[p].m_fw) # {}
      /\ \A i \in StoredOf(loc[p].m_fw) :
           /\ fireworks[i].state = loc[p].m_fw.state
           /\ fireworks[i].state_history = loc[p].m_fw.state_history
           /\ fireworks[i].state_history[Len(fireworks[i].state_history)].state
                = loc[p].m_fw.state
           /\ fireworks[i].action = loc[p].m_fw.action

\* C18: a checkin that the store rejects as too large, with a non-empty
\* action and a GridFS collection configured, completes; the stored document
\* then has the reference X as its action and the in-memory firework's other
\* fields, and the file X holds the serialized action with the metadata
\* {fw_id, launch_idx}.
Spilling(p) ==
  /\ pc[p] = "idle" /\ loc[p].op = "checkin" /\ loc[p].rejected
  /\ ~Empty(loc[p].m_fw.action)
  /\ gridfs_fallback.configured

C18_Spillover ==
  \A p \in Procs :
    Spilling(p) =>
      /\ loc[p].out = "checked_in"
      /\ loc[p].action_id \in DOMAIN gridfs_fallback.files
      /\ gridfs_fallback.files[loc[p].action_id].data = Dumps(loc[p].m_fw.action)
      /\ gridfs_fallback.files[loc[p].action_id].metadata = MetadataWithLaunch(loc[p].m_fw)
      /\ StoredOf(loc[p].m_fw) # {}
      /\ \A i \in StoredOf(loc[p].m_fw) :
           /\ fireworks[i].action = GridfsRef(loc[p].action_id)
           /\ [fireworks[i] EXCEPT !.action = loc[p].m_fw.action] = loc[p].m_fw

\* C19: get_fw_by_id of a firework whose action was spilled returns the
\* action that was checked in, not the reference to it.
C19_RoundTrip ==
  \A p \in Procs :
    (pc[p] = "idle" /\ loc[p].op = "get_fw" /\ loc[p].out = "found"
       /\ HasKey(loc[p].found.action))
    => /\ ~HasKey(loc[p].m_fw.action)
       /\ loc[p].m_fw.action = get_action_from_gridfs(loc[p].found.action, gridfs_fallback)

\* C20: a checkin that the store rejects as too large, with an empty action
\* or with no GridFS collection configured, ends in that step with the error
\* raised to the caller: nothing is written to the GridFS collection, the
\* stored documents are unchanged and no refresh of a workflow is started.
C20_RejectedFails ==
  [][\A p \in Procs :
       (/\ pc[p] = "ci_write" /\ pc'[p] # "ci_write"
        /\ TooLarge(loc[p].m_fw)
        /\ loc[p].m_fw.action = ActionDict(0) \/ ~gridfs_fallback.configured)
       => /\ pc'[p] = "idle"
          /\ loc'[p].exc = "DocumentTooLarge"
          /\ gridfs_fallback' = gridfs_fallback
          /\ fireworks' = fireworks
          /\ workflows' = workflows]_vars

C20_Witness ==
  \E p \in Procs :
    /\ pc[p] = "idle" /\ loc[p].op = "checkin" /\ loc[p].rejected
    /\ loc[p].exc = "DocumentTooLarge"
    /\ loc[p].m_fw.action = ActionDict(0)
    /\ gridfs_fallback.configured /\ gridfs_fallback.files = <<>>

\* C21: when the body of _refresh_wf(fw_id) fails with anything but a lock
\* timeout, the call ends with a RuntimeError, and in the store it leaves the
\* firework fw_id is FIZZLED, its workflow is FIZZLED and the workflow's
\* fw_states entry of fw_id is FIZZLED.
LatestIn(coll, id) ==
  {i \in DOMAIN coll :
     /\ coll[i].fw_id = id
     /\ \A j \in DOMAIN coll : coll[j].fw_id = id => coll[j].launch_idx <= coll[i].launch_idx}

C21_FailureFizzles ==
  [][\A p \in Procs :
       (pc[p] = "rf_fizzle_st" /\ pc'[p] # pc[p])
       => /\ loc'[p].exc = "RuntimeError"
          /\ \A i \in LatestIn(fireworks', loc[p].fw) : fireworks'[i].state = "FIZZLED"
          /\ \A w \in DOMAIN workflows' :
               loc[p].fw \in workflows'[w].nodes
               => /\ workflows'[w].state = "FIZZLED"
                  /\ workflows'[w].fw_states[loc[p].fw] = "FIZZLED"]_vars

\* C22: duplicate links are stored in both directions: in every state of the
\* store, when a document of firework A lists B in its duplicates, the
\* documents of B list A in theirs.
C22_DuplicatesSymmetric ==
  \A i \in DOMAIN fireworks :
    \A b \in fireworks[i].duplicates :
      \A j \in LatestOf(b) : fireworks[i].fw_id \in fireworks[j].duplicates

\* C23: once reserve_ready has linked firework A to its duplicate B, no
\* reserve_ready hands out B as a piece of work of its own: the firework a
\* call returns is listed in the duplicates of no stored document.
LinkedFws == UNION {fireworks[i].duplicates : i \in DOMAIN fireworks}

C23_LinkedNotHandedOut ==
  [][\A p \in Procs :
       (pc[p] = "gf_steal" /\ pc'[p] = "idle" /\ loc'[p].out = "returned")
       => loc'[p].m_fw.fw_id \notin LinkedFws]_vars

C23_Witness ==
  \E p, q \in Procs :
    /\ 3 \in LinkedFws
    /\ Received(p) /\ loc[p].m_fw.fw_id \notin LinkedFws
    /\ pc[q] = "idle" /\ loc[q].op = "reserve" /\ loc[q].out = "None"

\* the step on which detect_unreserved runs its query
Detects(p) == pc[p] = "idle" /\ loc'[p].op = "detect" /\ loc'[p] # loc[p]

\* the time of the latest RESERVED entry of a state history, -1 when it has none
LatestReserved(h) ==
  LET R == {k \in DOMAIN h : h[k].state = "RESERVED"} IN
  IF R = {} THEN 0 - 1 ELSE h[Max(R)].updated_on

Returned(p) == {loc'[p].bad[k] : k \in DOMAIN loc'[p].bad}

\* C24: detect_unreserved(expiry) returns exactly the fireworks in state
\* RESERVED whose latest RESERVED state-history entry is no younger than
\* now - expiry, and never a firework whose current reservation is younger
\* than expiry, whatever older RESERVED entries its history holds.
C24_DetectsExpiredOnly ==
  [][\A p \in Procs :
       Detects(p)
       => /\ Returned(p) =
               {fireworks[i].fw_id : i \in {j \in DOMAIN fireworks :
                    /\ fireworks[j].state = "RESERVED"
                    /\ LatestReserved(fireworks[j].state_history) >= 0
                    /\ LatestReserved(fireworks[j].state_history) <= now - loc'[p].secs}}
          /\ \A i \in DOMAIN fireworks :
               (fireworks[i].state = "RESERVED" /\ fireworks[i].updated_on > now - loc'[p].secs)
               => fireworks[i].fw_id \notin Returned(p)]_vars

\* C25: once the reservation of a firework is older than the expiration
\* time, detect_unreserved(rerun = true) returns its id, and each cancelled
\* firework ends READY with the launch_idx it had.
C25_ExpiredReservationRerun ==
  [][\A p \in Procs :
       /\ (Detects(p) /\ loc'[p].rerun)
          => \A i \in DOMAIN fireworks :
               (fireworks[i].state = "RESERVED" /\ fireworks[i].updated_on <= now - loc'[p].secs)
               => fireworks[i].fw_id \in Returned(p)
       /\ (pc[p] = "du_next" /\ pc'[p] # pc[p])
          => \A i \in LatestIn(fireworks', loc[p].arg) :
               /\ fireworks'[i].state = "READY"
               /\ fireworks'[i].launch_idx = loc[p].m_fw.launch_idx]_vars

\* C26: on the linear chain 1 -> 2 -> 3, reserve_ready and then the checkin
\* of node 1 as COMPLETED with an empty action end with node 2 READY, node 3
\* WAITING, fw_states {1: COMPLETED, 2: READY, 3: WAITING} and the
\* aggregate RUNNING.
C26_LinearChain ==
  [][\A p \in Procs :
       (/\ pc[p] = "ci_dups" /\ pc'[p] = "idle" /\ loc'[p].out = "checked_in"
        /\ loc[p].arg = 1 /\ loc[p].m_fw.state = "COMPLETED"
        /\ loc[p].m_fw.action = ActionDict(0)
        /\ loc[p].m_fw.state_history[Len(loc[p].m_fw.state_history) - 1].state = "READY"
        /\ workflows[1].links = (1 :> {2}) @@ (2 :> {3}) @@ (3 :> {}))
       => /\ \A i \in LatestIn(fireworks', 2) : fireworks'[i].state = "READY"
          /\ \A i \in LatestIn(fireworks', 3) : fireworks'[i].state = "WAITING"
          /\ workflows'[1].fw_states =
               (1 :> "COMPLETED") @@ (2 :> "READY") @@ (3 :> "WAITING")
          /\ workflows'[1].state = "RUNNING"]_vars

\* C27: reserve_ready never reserves a document whose launch_idx is lower
\* than the highest launch_idx stored for its fw_id, and never returns one.
C27_AuthoritativeLaunch ==
  [][\A p \in Procs :
       /\ (pc[p] = "gf_find" /\ pc'[p] = "gf_load" /\ loc[p].checkout)
          => \A j \in DocsOf(loc'[p].fw) :
               fireworks[j].launch_idx <= loc'[p].found.launch_idx
       /\ (pc[p] = "gf_steal" /\ pc'[p] = "idle" /\ loc'[p].out = "returned")
          => \A j \in DocsOf(loc'[p].m_fw.fw_id) :
               fireworks[j].launch_idx <= loc'[p].m_fw.launch_idx]_vars

\* C28: every call of reserve_ready terminates, with or without fw_id, with
\* checkout true or false, with or without duplicate matches.
C28_ReserveTerminates ==
  \A p \in Procs : (pc[p] = "gf_find") ~> (pc[p] = "idle")

\* the step of a reader, get_fw_by_id or get_wf_by_fw_id
Reads(p) ==
  /\ pc[p] = "idle" /\ pc'[p] = "idle"
  /\ loc'[p].op \in {"get_fw", "get_wf"}
  /\ loc'[p] # loc[p] \/ nops' # nops

\* C29: get_fw_by_id of an fw_id that no document carries and
\* get_wf_by_fw_id of an fw_id that no workflow has among its nodes both
\* raise the not-found error, and neither changes the store.
C29_NotFound ==
  [][\A p \in Procs :
       Reads(p)
       => /\ <<fireworks, workflows, next_fw_id, gridfs_fallback>>'
               = <<fireworks, workflows, next_fw_id, gridfs_fallback>>
          /\ (loc'[p].op = "get_fw" /\ \A i \in DOMAIN fireworks : fireworks[i].fw_id # loc'[p].arg)
             => loc'[p].exc = "ValueError"
          /\ (loc'[p].op = "get_wf" /\ \A w \in DOMAIN workflows : loc'[p].arg \notin workflows[w].nodes)
             => loc'[p].exc = "ValueError"]_vars

C29_Witness ==
  \E p, q \in Procs :
    /\ pc[p] = "idle" /\ loc[p].op = "get_fw" /\ loc[p].exc = "ValueError"
    /\ \A i \in DOMAIN fireworks : fireworks[i].fw_id # loc[p].arg
    /\ pc[q] = "idle" /\ loc[q].op = "get_wf" /\ loc[q].exc = "ValueError"
    /\ \A w \in DOMAIN workflows : loc[q].arg \notin workflows[w].nodes

\* C30: after _recover(fw_id, mode) on a firework whose latest launch has a
\* checkpoint, the latest-launch document has spec._recovery holding the
\* checkpoint, the previous directory, the launch id and the mode, and
\* spec._launch_dir is the previous directory when mode is prev_dir; after
\* the clearing call spec._recovery is absent and every other key is
\* unchanged.
C30_RecoveryWritten ==
  [][\A p \in Procs :
       /\ (pc[p] = "rc_update" /\ pc'[p] = "idle")
          => \A i \in LatestIn(fireworks', loc[p].arg) :
               /\ "_recovery" \in DOMAIN fireworks'[i]
               /\ fireworks'[i]["_recovery"] = Recovery(loc[p].m_fw, loc[p].ctx)
               /\ loc[p].ctx = "prev_dir"
                  => /\ "_launch_dir" \in DOMAIN fireworks'[i]
                     /\ fireworks'[i]["_launch_dir"] = loc[p].m_fw["launch_dir"]
       /\ (pc[p] = "idle" /\ nops' # nops /\ loc'[p].op = "recover" /\ loc'[p].out = "cleared")
          => \A i \in LatestIn(fireworks', loc'[p].arg) :
               /\ "_recovery" \notin DOMAIN fireworks'[i]
               /\ fireworks'[i] = Unset(fireworks[i], "_recovery")]_vars

\* C31: ForeachTask with 'number of chunks' = k, 1 <= k, on a non-empty split
\* list divides the list into exactly k chunks and returns exactly k detour
\* fireworks, one for each chunk.
C31_ExactlyKChunks ==
  \A p \in Procs :
    (loc[p].op = "foreach" /\ loc[p].arg >= 1)
    => /\ Len(loc[p].fws) = loc[p].arg
       /\ \A k \in DOMAIN loc[p].fws : loc[p].fws[k].chunk_number = k - 1

\* the fw_ids _get_duplicates returned to _checkin_fw on this step
GotDuplicates(p) ==
  IF pc'[p] = "ci_refresh" THEN {loc'[p].todo[k] : k \in DOMAIN loc'[p].todo} ELSE {}

\* C32: _get_duplicates(fw_id) returns exactly the fw_ids listed in the
\* duplicates field of firework fw_id, without fw_id itself, and the empty
\* set when the firework has no duplicates.
C32_ExactlyTheDuplicates ==
  [][\A p \in Procs :
       (pc[p] = "ci_dups" /\ pc'[p] # "ci_dups")
       => GotDuplicates(p) =
            UNION {fireworks[i].duplicates : i \in DocsOf(loc[p].arg)} \ {loc[p].arg}]_vars

\* C33: get_fw_ids with count_only = true and a limit other than 0 raises an
\* error and returns no value to its caller.
C33_CountWithLimitRaises ==
  [][\A p \in Procs :
       (/\ pc[p] = "idle" /\ pc'[p] = "idle" /\ nops' # nops
        /\ loc'[p].op = "get_fw_ids" /\ loc'[p].count_only /\ loc'[p].limit # 0)
       => /\ loc'[p].exc = "ValueError"
          /\ loc'[p].value.kind = "none"]_vars

\* C34: with kill = false, from a holder's acquire until its release the
\* workflow document has locked set at every step, the replacement of the
\* document by _update_wf included, and no other process acquires the lock
\* of that workflow in between.
C34_ReplacePreservesLock ==
  [][~cfg.kill =>
       \A p \in Procs :
         (InCS(p) /\ loc'[p].has)
         => /\ \A w \in WfOf(loc[p].fw) : workflows[w].locked /\ workflows'[w].locked
            /\ \A q \in Procs \ {p} :
                 WfOf(loc'[q].fw) \cap WfOf(loc[p].fw) # {} => ~loc'[q].has]_vars

C34_Witness ==
  \E p \in Procs : \E q \in Procs \ {p} :
    /\ ~cfg.kill
    /\ pc[p] = "exit" /\ loc[p].ctx = "refresh" /\ InCS(p) /\ ~loc[p].err
    /\ loc[p].wf # NoWf
    /\ \A w \in WfOf(loc[p].fw) : workflows[w].locked /\ workflows[w].fw_states = loc[p].wf.fw_states
    /\ pc[q] = "wait" /\ WfOf(loc[q].fw) = WfOf(loc[p].fw)

C36_NoStrandedReservation ==
  [][\A p \in Procs :
       /\ (pc[p] = "gf_steal" /\ pc'[p] = "idle" /\ loc'[p].out = "returned")
          => loc[p].reserved \subseteq {loc'[p].m_fw.fw_id}
       /\ (pc[p] = "gf_find" /\ pc'[p] = "idle")
          => \A i \in DOMAIN fireworks' :
               fireworks'[i].fw_id \in loc[p].reserved => fireworks'[i].state # "RESERVED"]_vars

\* C37: the duplicates relation is irreflexive: whatever reserve_ready calls
\* ran on fireworks with a _dupefinder, whose query may match the dispatched
\* firework's own document, no firework lists its own fw_id as a duplicate.
C37_DuplicatesIrreflexive ==
  \A i \in DOMAIN fireworks : fireworks[i].fw_id \notin fireworks[i].duplicates

\* C38: cancel_reservation(fw_id) on a firework whose latest launch is not
\* RESERVED changes nothing: no firework document is added, replaced or has
\* its state changed.
C38_CancelNotReserved ==
  [][\A p \in Procs :
       (/\ pc[p] = "cr_replace" /\ loc[p].op = "cancel"
        /\ \A i \in LatestOf(loc[p].arg) : fireworks[i].state # "RESERVED")
       => fireworks' = fireworks]_vars

\* the step of update_spec
Updates(p) ==
  /\ pc[p] = "idle" /\ pc'[p] = "idle" /\ nops' # nops
  /\ loc'[p].op = "update_spec" /\ loc'[p].arg = nops'

\* C39: update_spec(fw_ids, doc) changes the spec only of the fireworks of
\* fw_ids in state READY, WAITING, FIZZLED, DEFUSED or PAUSED; the other
\* fireworks, and state, launch_idx and state_history of every firework, are
\* left unchanged.
C39_UpdateSpecFrame ==
  [][\A p \in Procs :
       Updates(p)
       => /\ DOMAIN fireworks' = DOMAIN fireworks
          /\ \A i \in DOMAIN fireworks :
               /\ fireworks'[i].fw_id = fireworks[i].fw_id
               /\ fireworks'[i].state = fireworks[i].state
               /\ fireworks'[i].launch_idx = fireworks[i].launch_idx
               /\ fireworks'[i].state_history = fireworks[i].state_history
               /\ (\/ fireworks[i].fw_id \notin loc'[p].ids
                   \/ fireworks[i].state \in {"RESERVED", "RUNNING", "COMPLETED", "ARCHIVED"})
                  => fireworks'[i] = fireworks[i]]_vars

\* the steps of the one client of SpecPriority that address a firework by its
\* fw_id alone
Addressed(op) == pc[1] = "idle" /\ nops' # nops /\ loc'[1].op = op

\* the documents a step has changed
Touched == {i \in DOMAIN fireworks : fireworks'[i] # fireworks[i]}

\* C40: the operations addressed by fw_id alone act on the authoritative
\* launch: when a fw_id has documents of several launch_idx values,
\* get_fw_by_id returns, and set_priority and the state/updated_on update of
\* _refresh_wf change, the document with the highest launch_idx and never an
\* older one.
C40_AuthoritativeLaunchAddressed ==
  [][/\ (Addressed("get_fw") /\ loc'[1].out = "found")
        => loc'[1].found \in {fireworks[i] : i \in LatestIn(fireworks, loc'[1].arg)}
     /\ Addressed("set_priority") => Touched \subseteq LatestIn(fireworks, loc'[1].fw)
     /\ (Addressed("refresh") /\ loc'[1].out # "nothing")
        => Touched \subseteq LatestIn(fireworks, loc'[1].fw)]_vars

====
